---- MODULE Spec2Model ----
(***************************************************************************)
(* wishub-mcp: the invocation pipeline of routes/mcp.py (invoke_mcp), with *)
(* the adapter registry (adapters/base.py, adapters/factory.py), the Redis *)
(* response cache (server/cache.py), the WisHub core client                *)
(* (server/wishub_core.py), the response model (protocol/models.py) and    *)
(* the invocation metrics (monitoring/metrics.py).                         *)
(*                                                                         *)
(* Python values are encoded as follows.  An Optional value is a sequence  *)
(* of length at most one: <<>> is None (or an unbound local), <<v>> is v.  *)
(* A dict with insertion order is a sequence of <<key, value>> pairs.  A   *)
(* float temperature is an integer number of tenths.  One invocation is    *)
(* one coroutine; it takes one step per await.                             *)
(***************************************************************************)
EXTENDS Integers, Sequences, FiniteSets, TLC

VARIABLES
    _adapters,             \* AIAdapterRegistry._adapters: seq of <<model_id, adapter>>
    _cache_manager,        \* cache.py global: <<>> or <<[enabled, _client]>>
    redis,                 \* the Redis keyspace: cache key -> stored JSON value
    started,               \* lifespan() has run its startup part
    served,                \* requests received so far
    pc,                    \* per invocation: the await it is suspended at
    req,                   \* per invocation: the validated MCPInvokeRequest
    loc,                   \* per invocation: the locals of invoke_mcp
    calls,                 \* per invocation: the collaborator calls made, in order
    result,                \* per invocation: <<>> or <<the MCPInvokeResponse returned>>
    began_after,           \* per invocation: the invocations that had returned when it began
    foreign_writes,        \* writes to the shared store by other clients so far
    probe                  \* calls made on a component directly, with their results

vars == <<_adapters, _cache_manager, redis, started, served,
          pc, req, loc, calls, result, began_after, foreign_writes, probe>>

-----------------------------------------------------------------------------
(* Bounds of the model *)

\* how many requests the service receives
MaxRequests == 2
\* how many times another client of the shared Redis store writes a key
MaxForeignWrites == 1

\* the coroutines running invoke_mcp
Invocations == {1, 2}

\* model ids a request may name
RequestModelIds == {"gpt-4", "unsupported-model"}
RequestPrompts == {"Hello, WisHub!"}
RequestContextIds == {"ctx_001"}
RequestContextTypes == {"wisunit"}
RequestMaxTokens == {10}
RequestTemperatures == {7}

\* what adapter.count_tokens may return, and adapter.generate may answer
TokenCounts == {0, 9}
ResponseTexts == {"answer"}

\* ContextBlob values the knowledge store answers with
EmptyContext == << >>
UnitContext == << <<"wisunit_id", "test_001">>, <<"content", "text">> >>
ContextBlobs == {EmptyContext, UnitContext}

-----------------------------------------------------------------------------
(* protocol/models.py *)

ContextType == {"wisunit", "knowledge_graph", "wisdom_core"}

MCPInvokeRequest ==
    [context_id : RequestContextIds, model_id : RequestModelIds,
     prompt : RequestPrompts, context_type : RequestContextTypes \cap ContextType,
     max_tokens : RequestMaxTokens, temperature : RequestTemperatures]

\* the fields MCPInvokeRequest declares
RequestFields ==
    {"context_id", "model_id", "prompt", "context_type", "max_tokens", "temperature"}

\* defaults that leave every optional field at zero
FieldDefault_Zero(field) ==
    CASE field = "context_type" -> <<"wisunit">>
      [] field = "max_tokens" -> <<0>>
      [] field = "temperature" -> <<0>>
      [] OTHER -> <<>>

\* Field(default=...): the default of a field, <<>> for a required field (...)
FieldDefault(field) ==
    CASE field = "context_type" -> <<"wisunit">>
      [] field = "max_tokens" -> <<2000>>
      [] field = "temperature" -> <<7>>
      [] OTHER -> <<>>

\* constraints without the upper limits
FieldValid_NoUpperLimit(field, value) ==
    CASE field = "context_type" -> value \in ContextType
      [] field = "max_tokens" -> value >= 1
      [] field = "temperature" -> value >= 0
      [] OTHER -> TRUE

\* the constraints of a field: the enum, ge=1 and le=8192, ge=0.0 and le=2.0
FieldValid(field, value) ==
    CASE field = "context_type" -> value \in ContextType
      [] field = "max_tokens" -> value >= 1 /\ value <= 8192
      [] field = "temperature" -> value >= 0 /\ value <= 20
      [] OTHER -> TRUE

\* MCPInvokeRequest(**body): the validated request, or <<>> for the
\* ValidationError.  A field the body lacks gets its default; a supplied value
\* is checked against the constraints and kept.
Validate(body) ==
    LET filled == [f \in RequestFields |->
                     IF body[f] = <<>> THEN FieldDefault(f) ELSE body[f]]
    IN IF \A f \in RequestFields : filled[f] # <<>> /\ FieldValid(f, filled[f][1])
       THEN <<[f \in RequestFields |-> filled[f][1]]>>
       ELSE <<>>

\* the fields MCPInvokeResponse declares
ResponseFields == {"status", "context", "response", "tokens_used", "message", "error"}

\* MCPInvokeResponse(**kw): a pydantic model keeps its declared fields, gives
\* the ones not passed their default None, and ignores any other keyword.
MCPInvokeResponse(kw) ==
    [f \in ResponseFields |-> IF f \in DOMAIN kw THEN <<kw[f]>> ELSE <<>>]

-----------------------------------------------------------------------------
(* adapters/base.py, adapters/factory.py *)

OpenAIModels == <<"gpt-4", "gpt-4-turbo", "gpt-4o", "gpt-3.5-turbo">>
ZhipuModels == <<"glm-4", "glm-4-turbo", "glm-3-turbo">>

BoundIds(reg) == {reg[k][1] : k \in DOMAIN reg}

\* a register that keeps the adapter an id already has (dict.setdefault)
register_IfAbsent(reg, model_id, adapter) ==
    IF model_id \in BoundIds(reg) THEN reg ELSE Append(reg, <<model_id, adapter>>)

\* a register that moves a bound id to the end (pop, then insert)
register_MoveToEnd(reg, model_id, adapter) ==
    Append(SelectSeq(reg, LAMBDA b : b[1] # model_id), <<model_id, adapter>>)

\* AIAdapterRegistry.register: dict assignment keeps the position of a bound key
register(reg, model_id, adapter) ==
    IF model_id \in BoundIds(reg)
    THEN [k \in DOMAIN reg |->
            IF reg[k][1] = model_id THEN <<model_id, adapter>> ELSE reg[k]]
    ELSE Append(reg, <<model_id, adapter>>)

\* a registry that answers an unbound id with its first adapter instead of
\* raising ValueError
RegistryGet_Fallback(reg, model_id) ==
    IF reg = <<>> THEN <<>>
    ELSE IF model_id \notin BoundIds(reg) THEN <<reg[1][2]>>
    ELSE LET k == CHOOSE j \in DOMAIN reg : reg[j][1] = model_id IN <<reg[k][2]>>

\* AIAdapterRegistry.get: <<>> stands for the ValueError of an unbound id
RegistryGet(reg, model_id) ==
    IF model_id \notin BoundIds(reg) THEN <<>>
    ELSE LET k == CHOOSE j \in DOMAIN reg : reg[j][1] = model_id IN <<reg[k][2]>>

\* AIAdapterRegistry.list_models
list_models(reg) == [k \in DOMAIN reg |-> reg[k][1]]

\* the value a dict d has under key
DictGet(d, key) == d[CHOOSE k \in DOMAIN d : d[k][1] = key][2]

\* AIAdapterFactory.MODEL_ADAPTERS as the class statement leaves it
MODEL_ADAPTERS ==
    [k \in 1..(Len(OpenAIModels) + Len(ZhipuModels)) |->
        IF k <= Len(OpenAIModels) THEN <<OpenAIModels[k], "OpenAIAdapter">>
        ELSE <<ZhipuModels[k - Len(OpenAIModels)], "ZhipuAdapter">>]

\* the concrete adapter classes: the two providers' and the tests' MockAdapter
AdapterClasses == {"OpenAIAdapter", "ZhipuAdapter", "MockAdapter"}

\* a subclass test that accepts every type
IsAdapterClass_Any(adapter_class) == TRUE

\* issubclass(adapter_class, BaseAIAdapter): true of the concrete adapters and
\* of the abstract base itself
IsAdapterClass(adapter_class) == adapter_class \in AdapterClasses \cup {"BaseAIAdapter"}

\* adapter_class(model_id, api_key): an abstract class cannot be instantiated,
\* MockAdapter inherits a constructor that only assigns, and a provider's
\* constructor builds its client (constructed: that did not raise)
Instantiates(adapter_class, constructed) ==
    /\ adapter_class # "BaseAIAdapter"
    /\ adapter_class = "MockAdapter" \/ constructed

\* a create_adapter that answers an unmapped id with an OpenAIAdapter
create_adapter_Default(table, model_id, constructed) ==
    IF model_id \notin BoundIds(table)
    THEN <<"returned", [model_id |-> model_id, cls |-> "OpenAIAdapter"]>>
    ELSE IF Instantiates(DictGet(table, model_id), constructed)
         THEN <<"returned", [model_id |-> model_id, cls |-> DictGet(table, model_id)]>>
         ELSE <<"raised", "Exception">>

\* AIAdapterFactory.create_adapter
create_adapter(table, model_id, constructed) ==
    IF model_id \notin BoundIds(table) THEN <<"raised", "ValueError">>
    ELSE IF Instantiates(DictGet(table, model_id), constructed)
         THEN <<"returned", [model_id |-> model_id, cls |-> DictGet(table, model_id)]>>
         ELSE <<"raised", "Exception">>

\* AIAdapterFactory.register_adapter: the table afterwards and how it ended
register_adapter(table, model_id, adapter_class) ==
    IF ~IsAdapterClass(adapter_class)
    THEN [table |-> table, out |-> <<"raised", "TypeError">>]
    ELSE [table |-> register(table, model_id, adapter_class), out |-> <<"returned">>]

\* AIAdapterFactory.list_supported_models
list_supported_models(table) == [k \in DOMAIN table |-> table[k][1]]

\* a loop that an exception ends
RECURSIVE RegisterAll_Abort(_, _, _, _)
RegisterAll_Abort(reg, table, ids, failing) ==
    IF ids = <<>> THEN reg
    ELSE LET made == create_adapter(table, Head(ids), Head(ids) \notin failing) IN
         IF made[1] = "returned"
         THEN RegisterAll_Abort(register(reg, Head(ids), made[2]), table, Tail(ids), failing)
         ELSE reg

\* the loop of initialize_adapters over the model ids of one provider: an
\* exception of create_adapter is logged and the loop goes on; failing holds
\* the ids whose constructor raises
RECURSIVE RegisterAll(_, _, _, _)
RegisterAll(reg, table, ids, failing) ==
    IF ids = <<>> THEN reg
    ELSE LET made == create_adapter(table, Head(ids), Head(ids) \notin failing) IN
         RegisterAll(IF made[1] = "returned" THEN register(reg, Head(ids), made[2])
                     ELSE reg,
                     table, Tail(ids), failing)

\* AIAdapterFactory.initialize_adapters: one adapter per known model id of
\* each provider whose key is configured
initialize_adapters(reg, table, openai_api_key, zhipu_api_key, failing) ==
    LET r1 == IF openai_api_key THEN RegisterAll(reg, table, OpenAIModels, failing)
              ELSE reg
    IN IF zhipu_api_key THEN RegisterAll(r1, table, ZhipuModels, failing) ELSE r1

-----------------------------------------------------------------------------
(* server/wishub_core.py *)

\* what the HTTP GET against the knowledge store can end as
HttpOutcomes == {<<"http_error">>, <<"bad_body">>} \cup {<<"ok", b>> : b \in ContextBlobs}

\* WisHubCoreClient.get_knowledge_context: a blob, or the exception raised.
\* httpx.HTTPError (status, timeout, transport) becomes RuntimeError; any
\* other exception (a body that is not JSON, an unknown type) is re-raised.
get_knowledge_context(context_type, http) ==
    IF context_type \notin ContextType THEN <<"raised", "ValueError">>
    ELSE IF http[1] = "http_error" THEN <<"raised", "RuntimeError">>
    ELSE IF http[1] = "bad_body" THEN <<"raised", "ValueError">>
    ELSE <<"returned", http[2]>>

-----------------------------------------------------------------------------
(* server/cache.py *)

DEFAULT_TTL == 3600

\* hashlib.sha256(...).hexdigest(), taken as collision-free
Sha256(text) == <<"sha256", text>>
\* hexdigest()[:16]
First16(digest) == <<"hex16", digest[2]>>

\* the order of the keys that occur, as sort_keys compares them
KeyRank(k) ==
    CASE k = "content" -> 1 [] k = "handle" -> 2 [] k = "wisunit_id" -> 3 [] OTHER -> 4

\* a value json.dumps rejects with TypeError (an object, a set, bytes)
Unserializable == "<object>"

\* json.dumps without sort_keys: the pairs in insertion order
SortKeys_Unsorted(blob) == blob

\* json.dumps(blob, sort_keys=True): the pairs in key order
RECURSIVE SortKeys(_)
SortKeys(blob) ==
    IF blob = <<>> THEN <<>>
    ELSE LET m == CHOOSE j \in DOMAIN blob :
                    \A l \in DOMAIN blob : KeyRank(blob[j][1]) <= KeyRank(blob[l][1])
             rest == [l \in 1..(Len(blob) - 1) |-> IF l < m THEN blob[l] ELSE blob[l + 1]]
         IN <<blob[m]>> \o SortKeys(rest)

\* a hash without the guard and the handler: a digest of nothing for an empty
\* context, the TypeError of json.dumps for one it cannot encode
_hash_context_NoSentinel(context_data) ==
    IF context_data = <<>> \/ context_data[1] = <<>> THEN Sha256(<<>>)
    ELSE IF \E k \in DOMAIN context_data[1] : context_data[1][k][2] = Unserializable
         THEN <<"raised", "TypeError">>
         ELSE Sha256(SortKeys(context_data[1]))

\* CacheManager._hash_context of a Python value: None (<<>>) or a dict (<<blob>>)
_hash_context(context_data) ==
    IF context_data = <<>> \/ context_data[1] = <<>> THEN <<"empty">>
    ELSE IF \E k \in DOMAIN context_data[1] : context_data[1][k][2] = Unserializable
         THEN <<"unhashable">>
         ELSE Sha256(SortKeys(context_data[1]))

\* str(temperature), str(max_tokens)
Str(type, number) == <<type, number>>

\* a key that leaves the temperature out
_generate_cache_key_NoTemperature(model_id, prompt, context_hash, temperature, max_tokens) ==
    <<"wishub_mcp", model_id, First16(Sha256(prompt)), context_hash,
      Str("int", max_tokens)>>

\* CacheManager._generate_cache_key: the parts that ":".join puts together
_generate_cache_key(model_id, prompt, context_hash, temperature, max_tokens) ==
    <<"wishub_mcp", model_id, First16(Sha256(prompt)), context_hash,
      Str("float", temperature), Str("int", max_tokens)>>

CacheKey(r, context_data) ==
    _generate_cache_key(r.model_id, r.prompt, _hash_context(context_data),
                        r.temperature, r.max_tokens)

\* model_id.split(":"): the parts of a model id as they stand in a joined key
Segments(model_id) ==
    IF model_id = "gpt-4:ft" THEN <<"gpt-4", "ft">> ELSE <<model_id>>

\* the joined key matches the glob f"wishub_mcp:{model_id}:*": the parts of
\* the model id, each followed by ":", are the parts after "wishub_mcp:".  A
\* model id with more parts than the key's would have to match its hashes,
\* which no part of an id equals.
MatchesPattern(model_id, key) ==
    /\ Len(Segments(model_id)) <= Len(Segments(key[2]))
    /\ \A k \in DOMAIN Segments(model_id) : Segments(key[2])[k] = Segments(model_id)[k]

\* JSON null, Python None, where a text is expected; no text equals it
JsonNull == "<null>"

\* a response_data dict: a dict with optional keys
Entry(response, tokens_used) == [response |-> response, tokens_used |-> tokens_used]

\* json.dumps(response_data, ensure_ascii=False): the text of the members the
\* dict has, in its order
json_dumps(response_data) ==
    (IF response_data.response = <<>> THEN <<>>
     ELSE <<<<"response", response_data.response[1]>>>>)
    \o (IF response_data.tokens_used = <<>> THEN <<>>
        ELSE <<<<"tokens_used", response_data.tokens_used[1]>>>>)

\* json.loads(cached_data): the dict of the members the text has
json_loads(cached_data) ==
    LET member(name) ==
            IF \E k \in DOMAIN cached_data : cached_data[k][1] = name
            THEN <<cached_data[CHOOSE k \in DOMAIN cached_data :
                                  cached_data[k][1] = name][2]>>
            ELSE <<>>
    IN Entry(member("response"), member("tokens_used"))

\* `ttl or self.default_ttl`: the expiry SETEX is given; ttl is <<>> when the
\* caller omits it
SetexSeconds(ttl, default_ttl) ==
    IF ttl = <<>> \/ ttl[1] = 0 THEN default_ttl ELSE ttl[1]
\* entries another client may have left under a key of this service: {}, one
\* without tokens_used, one whose response is null
MalformedEntries ==
    {Entry(<<>>, <<>>), Entry(<<"stale">>, <<>>), Entry(<<JsonNull>>, <<9>>)}

\* a hit test that only passes for the value True, which no entry is
Truthy_IsTrue(entry) == FALSE

\* truth value of a dict: it has a key
Truthy(entry) == entry.response # <<>> \/ entry.tokens_used # <<>>

\* the CacheManager of a call is usable: enabled and connected
Usable(mgr) == mgr # <<>> /\ mgr[1].enabled /\ mgr[1]._client

-----------------------------------------------------------------------------
(* CacheManager.get and CacheManager.set, around the Redis call *)

\* a get that returns what was read although the call ended in an error
CacheManager_get_IgnoresError(store, key, ok) ==
    IF key \in DOMAIN store
    THEN [returned |-> <<json_loads(store[key].value)>>,
          outcome |-> IF ok THEN "hit" ELSE "error"]
    ELSE [returned |-> <<>>, outcome |-> IF ok THEN "miss" ELSE "error"]

\* CacheManager.get once the Redis GET has ended (ok: it did not raise):
\* the value returned to the caller and the outcome counted in the metrics
CacheManager_get(store, key, ok) ==
    IF ~ok THEN [returned |-> <<>>, outcome |-> "error"]
    ELSE IF key \in DOMAIN store
         THEN [returned |-> <<json_loads(store[key].value)>>, outcome |-> "hit"]
         ELSE [returned |-> <<>>, outcome |-> "miss"]

\* a set that keeps the entry a key already has (SET ... NX)
CacheManager_set_IfAbsent(store, key, response_data, ttl, ok) ==
    IF ~ok \/ key \in DOMAIN store THEN store
    ELSE [k \in DOMAIN store \cup {key} |->
            IF k = key THEN [value |-> json_dumps(response_data),
                             ttl |-> SetexSeconds(ttl, DEFAULT_TTL)]
            ELSE store[k]]

\* CacheManager.set once the Redis SETEX has ended: the keyspace afterwards
CacheManager_set(store, key, response_data, ttl, ok) ==
    IF ~ok THEN store
    ELSE [k \in DOMAIN store \cup {key} |->
            IF k = key THEN [value |-> json_dumps(response_data),
                             ttl |-> SetexSeconds(ttl, DEFAULT_TTL)]
            ELSE store[k]]

SetOutcome(ok) == IF ok THEN "success" ELSE "error"

-----------------------------------------------------------------------------
(* monitoring/metrics.py *)

\* one completed call of an invocation: what was called, on what, how it ended
E(op, arg, out) == [op |-> op, arg |-> arg, out |-> out]

\* record_ai_invocation: ai_invocations_total.labels(model, status).inc() and
\* the latency observation, as the samples the call adds
record_ai_invocation(model, status) ==
    <<E("ai_invocations_total.inc", model, <<status>>)>>

\* record_ai_invocation raised before it counted anything
record_ai_invocation_raised(model, status) ==
    <<E("record_ai_invocation.raised", model, <<status>>)>>

\* record_cache_operation: cache_operations_total.labels(operation, status).inc()
record_cache_operation(operation, status) ==
    <<E("cache_operations_total.inc", operation, <<status>>)>>

-----------------------------------------------------------------------------
(* routes/mcp.py: helpers of invoke_mcp *)

\* _build_context_string: "" for an empty blob, else a header and one part per key
_build_context_string(context_data) ==
    IF context_data = <<>> THEN <<>>
    ELSE <<"context-header">> \o [k \in DOMAIN context_data |-> context_data[k]]

\* the error responses invoke_mcp builds
ErrorResponse(code, message, details) ==
    MCPInvokeResponse([status |-> "error", message |-> message,
                       error |-> [code |-> code, details |-> details]])

UnsupportedModelResponse(model_id) ==
    ErrorResponse("MCP_002", "unsupported model", <<model_id>>)

\* the generic except branch of the fetch answering with the internal code
ContextFailureResponse_Internal(exception) ==
    IF exception = "RuntimeError"
    THEN ErrorResponse("MCP_001", "context fetch failed: RuntimeError", <<exception>>)
    ELSE ErrorResponse("MCP_999", "internal error", <<exception>>)

ContextFailureResponse(exception) ==
    IF exception = "RuntimeError"
    THEN ErrorResponse("MCP_001", "context fetch failed: RuntimeError", <<exception>>)
    ELSE ErrorResponse("MCP_001", "context fetch failed", <<exception>>)

BudgetExceededResponse(total_input_tokens, max_tokens) ==
    ErrorResponse("MCP_003", "input too long", <<total_input_tokens, max_tokens>>)

\* the generic except branch of the generation answering with the code of a
\* context failure
GenerationFailureResponse_Context(exception) ==
    IF exception = "RuntimeError"
    THEN ErrorResponse("MCP_999", "model call failed: RuntimeError", <<exception>>)
    ELSE ErrorResponse("MCP_001", "response generation failed", <<exception>>)

GenerationFailureResponse(exception) ==
    IF exception = "RuntimeError"
    THEN ErrorResponse("MCP_999", "model call failed: RuntimeError", <<exception>>)
    ELSE ErrorResponse("MCP_999", "response generation failed", <<exception>>)

\* a boundary handler that forgets the error object
InternalErrorResponse_NoError(exception) ==
    MCPInvokeResponse([status |-> "error", message |-> "internal server error"])

\* lines 278-287: the handler at the boundary of the pipeline
InternalErrorResponse(exception) ==
    ErrorResponse("MCP_999", "internal server error", <<exception>>)

\* the response returned from the cache-hit branch; response is Optional[str],
\* so a null response validates and leaves the field None
CachedResponse(context_data, cached_response) ==
    IF cached_response.response[1] = JsonNull
    THEN MCPInvokeResponse([status |-> "success", context |-> context_data,
                            tokens_used |-> cached_response.tokens_used[1],
                            cached |-> TRUE])
    ELSE MCPInvokeResponse([status |-> "success", context |-> context_data,
                            response |-> cached_response.response[1],
                            tokens_used |-> cached_response.tokens_used[1],
                            cached |-> TRUE])

\* the response returned after a generation
GeneratedResponse(context_data, response_text, total_tokens) ==
    MCPInvokeResponse([status |-> "success", context |-> context_data,
                       response |-> response_text, tokens_used |-> total_tokens])

\* the threshold written as 9 instead of 0.9
BudgetExceeded_Nine(total_input_tokens, max_tokens) ==
    total_input_tokens > max_tokens * 9

\* a budget check that refuses nothing
BudgetExceeded_Never(total_input_tokens, max_tokens) == FALSE

\* a threshold that already refuses an input of exactly 90%
BudgetExceeded_Inclusive(total_input_tokens, max_tokens) ==
    10 * total_input_tokens >= 9 * max_tokens

\* total_input_tokens > request.max_tokens * 0.9
BudgetExceeded(total_input_tokens, max_tokens) ==
    10 * total_input_tokens > 9 * max_tokens

\* a total that leaves the input out
TotalTokens_OutputOnly(total_input_tokens, output_tokens) == output_tokens

\* line 199: total_tokens = total_input_tokens + output_tokens
TotalTokens(total_input_tokens, output_tokens) ==
    total_input_tokens + output_tokens

\* a hit branch that subscripts a key CacheManager.set never writes: the
\* KeyError sends every hit on to the generation
HasResponseKeys_WrongKey(cached_response) ==
    "text" \in DOMAIN cached_response /\ cached_response.tokens_used # <<>>

\* the dict has both keys the hit branch subscripts
HasResponseKeys(cached_response) ==
    cached_response.response # <<>> /\ cached_response.tokens_used # <<>>

\* what an adapter of a class can raise from generate: the two provider
\* adapters wrap every failure in RuntimeError, a custom adapter need not
GenerateExceptions(adapter) ==
    IF adapter.cls \in {"OpenAIAdapter", "ZhipuAdapter"} THEN {"RuntimeError"}
    ELSE {"RuntimeError", "Exception"}

GenerateOutcomes(adapter) ==
    {<<"raised", e>> : e \in GenerateExceptions(adapter)}
        \cup {<<"returned", t>> : t \in ResponseTexts}

\* count_tokens returns <<n>> or raises (<<>>)
CountOutcomes == {<<>>} \cup {<<n>> : n \in TokenCounts}

-----------------------------------------------------------------------------
(* State *)

NoLocals ==
    [adapter |-> <<>>, context_data |-> <<>>, cache_manager |-> <<>>,
     prompt_tokens |-> <<>>, total_input_tokens |-> 0, response_text |-> <<>>,
     output_tokens |-> <<>>, total_tokens |-> 0]

\* the process after import: nothing registered, no cache manager, no request
Fresh ==
    /\ _adapters = <<>>
    /\ _cache_manager = <<>>
    /\ redis = <<>>
    /\ started = FALSE
    /\ served = 0
    /\ pc = [i \in Invocations |-> "idle"]
    /\ req = [i \in Invocations |-> <<>>]
    /\ loc = [i \in Invocations |-> NoLocals]
    /\ calls = [i \in Invocations |-> <<>>]
    /\ result = [i \in Invocations |-> <<>>]
    /\ began_after = [i \in Invocations |-> {}]
    /\ foreign_writes = 0

Init == Fresh /\ probe = <<>>

\* the pipeline state, left alone by calls made on a component directly
pipeline == <<_adapters, _cache_manager, redis, started, served,
              pc, req, loc, calls, result, began_after, foreign_writes>>

Idle == \A i \in Invocations : pc[i] = "idle"

Call(i, events) == calls' = [calls EXCEPT ![i] = calls[i] \o events]

\* the handler returns resp: the coroutine ends and its frame is dropped
Return(i, resp) ==
    /\ pc' = [pc EXCEPT ![i] = "done"]
    /\ result' = [result EXCEPT ![i] = <<resp>>]
    /\ loc' = [loc EXCEPT ![i] = NoLocals]

Goto(i, label, locals) ==
    /\ pc' = [pc EXCEPT ![i] = label]
    /\ loc' = [loc EXCEPT ![i] = locals]
    /\ UNCHANGED result

-----------------------------------------------------------------------------
(* Startup and configuration *)

\* app.py lifespan(), startup part: the adapters are initialised from the
\* configured keys; nothing else is set up.  It runs before requests are served.
Lifespan(openai_api_key, zhipu_api_key, failing) ==
    /\ ~started
    /\ Idle
    /\ started' = TRUE
    /\ _adapters' = initialize_adapters(_adapters, MODEL_ADAPTERS, openai_api_key,
                                        zhipu_api_key, failing)
    /\ UNCHANGED <<probe, _cache_manager, redis, served, pc, req, loc, calls,
                   result, began_after, foreign_writes>>

\* AIAdapterRegistry.register(model_id, adapter) with a custom adapter, as
\* tests/test_mcp_api.py does for "gpt-4" before it posts its request
Register(model_id, adapter) ==
    /\ served = 0
    /\ _adapters' = register(_adapters, model_id, adapter)
    /\ UNCHANGED <<probe, _cache_manager, redis, started, served, pc, req, loc,
                   calls, result, began_after, foreign_writes>>

\* cache.py init_cache(enabled): a new CacheManager, then connect(), which
\* leaves _client None when caching is disabled or the ping fails.  It is a
\* startup call: it happens once, before requests are served.
init_cache(enabled, ping_ok) ==
    /\ _cache_manager = <<>>
    /\ served = 0
    /\ _cache_manager' = <<[enabled |-> enabled, _client |-> enabled /\ ping_ok]>>
    /\ UNCHANGED <<probe, _adapters, redis, started, served, pc, req, loc, calls,
                   result, began_after, foreign_writes>>

-----------------------------------------------------------------------------
(* invoke_mcp, one action per await *)

\* lines 66-83: the request arrives, the adapter is resolved
invoke_mcp(i, r) ==
    /\ pc[i] \in {"idle", "done"}
    /\ served < MaxRequests
    /\ served' = served + 1
    /\ req' = [req EXCEPT ![i] = <<r>>]
    /\ began_after' = [began_after EXCEPT ![i] = {j \in Invocations \ {i} : pc[j] = "done"}]
    /\ calls' = [calls EXCEPT ![i] = <<E("registry.get", r.model_id, <<>>)>>]
    /\ LET adapter == RegistryGet(_adapters, r.model_id)
       IN IF adapter = <<>>
          THEN Return(i, UnsupportedModelResponse(r.model_id))
          ELSE /\ pc' = [pc EXCEPT ![i] = "fetch"]
               /\ loc' = [loc EXCEPT ![i] = [NoLocals EXCEPT !.adapter = adapter]]
               /\ result' = [result EXCEPT ![i] = <<>>]
    /\ UNCHANGED <<_adapters, _cache_manager, redis, started, foreign_writes>>

\* a validated request handed to the handler
ResolveAdapter(i, r) == invoke_mcp(i, r) /\ UNCHANGED probe

\* a handler that looks the request up in the cache although the fetch raised
FetchContext_LookupAnyway(i, http) ==
    /\ pc[i] = "fetch"
    /\ LET c == get_knowledge_context(req[i][1].context_type, http)
       IN /\ Call(i, <<E("get_knowledge_context", req[i][1].context_type, c)>>)
          /\ Goto(i, "lookup",
                  [loc[i] EXCEPT !.context_data =
                      <<IF c[1] = "raised" THEN UnitContext ELSE c[2]>>])
    /\ UNCHANGED <<probe, _adapters, _cache_manager, redis, started, served,
                   req, began_after, foreign_writes>>

\* lines 85-124: the context fetch returns or raises.  A body that is JSON but
\* no dict makes _build_context_string raise inside the same try, like bad_body.
FetchContext(i, http) ==
    /\ pc[i] = "fetch"
    /\ LET c == get_knowledge_context(req[i][1].context_type, http)
       IN /\ Call(i, <<E("get_knowledge_context", req[i][1].context_type, c)>>)
          /\ IF c[1] = "raised"
             THEN Return(i, ContextFailureResponse(c[2]))
             ELSE Goto(i, "lookup", [loc[i] EXCEPT !.context_data = <<c[2]>>])
    /\ UNCHANGED <<probe, _adapters, _cache_manager, redis, started, served,
                   req, began_after, foreign_writes>>

\* lines 126-138 and cache.py 136-146: the manager is looked up; when it is
\* enabled CacheManager.get is called, which awaits Redis only when connected
CacheLookup(i) ==
    /\ pc[i] = "lookup"
    /\ LET mgr == _cache_manager
           locals == [loc[i] EXCEPT !.cache_manager = mgr]
       IN IF mgr # <<>> /\ mgr[1].enabled
          THEN IF Usable(mgr)
               THEN /\ Goto(i, "redis_get", locals)
                    /\ UNCHANGED calls
               ELSE /\ Call(i, <<E("cache.get", req[i][1].model_id, <<>>)>>)
                    /\ Goto(i, "count_prompt", locals)
          ELSE /\ Goto(i, "count_prompt", locals)
               /\ UNCHANGED calls
    /\ UNCHANGED <<probe, _adapters, _cache_manager, redis, started, served,
                   req, began_after, foreign_writes>>

\* cache.py 146-160 and lines 140-160: the Redis GET ends.  A truthy cached
\* dict is counted as "cached" and returned; subscripting a key it lacks raises
\* KeyError, which line 159 catches, and the pipeline goes on to the token
\* count, as it does when the metrics recorder raises (rec is FALSE).
RedisGet(i, ok, rec) ==
    /\ pc[i] = "redis_get"
    /\ LET r == req[i][1]
           got == CacheManager_get(redis, CacheKey(r, loc[i].context_data), ok)
           ops == <<E("redis.get", r.model_id, <<ok>>)>>
                    \o record_cache_operation("get", got.outcome)
                    \o <<E("cache.get", r.model_id, got.returned)>>
       IN IF got.returned # <<>> /\ Truthy(got.returned[1])
          THEN IF rec
               THEN /\ Call(i, ops \o record_ai_invocation(r.model_id, "cached"))
                    /\ IF HasResponseKeys(got.returned[1])
                       THEN Return(i, CachedResponse(loc[i].context_data[1],
                                                     got.returned[1]))
                       ELSE Goto(i, "count_prompt", loc[i])
               ELSE /\ Call(i, ops \o record_ai_invocation_raised(r.model_id, "cached"))
                    /\ Goto(i, "count_prompt", loc[i])
          ELSE /\ Call(i, ops)
               /\ Goto(i, "count_prompt", loc[i])
    /\ UNCHANGED <<probe, _adapters, _cache_manager, redis, started, served, req, began_after,
                   foreign_writes>>

\* lines 163-169: adapter.count_tokens(request.prompt) returns or raises; a
\* raise skips the count of the context and leaves prompt_tokens unbound
CountPromptTokens(i, out) ==
    /\ pc[i] = "count_prompt"
    /\ Call(i, <<E("count_tokens", "prompt", out)>>)
    /\ IF out = <<>>
       THEN Goto(i, "budget", [loc[i] EXCEPT !.total_input_tokens = 0])
       ELSE Goto(i, "count_context", [loc[i] EXCEPT !.prompt_tokens = out])
    /\ UNCHANGED <<probe, _adapters, _cache_manager, redis, started, served,
                   req, began_after, foreign_writes>>

\* lines 165-169: adapter.count_tokens(context_str) returns or raises
CountContextTokens(i, out) ==
    /\ pc[i] = "count_context"
    /\ Call(i, <<E("count_tokens", "context", out)>>)
    /\ IF out = <<>>
       THEN Goto(i, "budget", [loc[i] EXCEPT !.total_input_tokens = 0])
       ELSE Goto(i, "budget",
                 [loc[i] EXCEPT !.total_input_tokens = loc[i].prompt_tokens[1] + out[1]])
    /\ UNCHANGED <<probe, _adapters, _cache_manager, redis, started, served,
                   req, began_after, foreign_writes>>

\* lines 171-185: the 90% threshold
TokenBudgetCheck(i) ==
    /\ pc[i] = "budget"
    /\ IF BudgetExceeded(loc[i].total_input_tokens, req[i][1].max_tokens)
       THEN Return(i, BudgetExceededResponse(loc[i].total_input_tokens,
                                             req[i][1].max_tokens))
       ELSE Goto(i, "generate", loc[i])
    /\ UNCHANGED <<probe, _adapters, _cache_manager, redis, started, served,
                   req, calls, began_after, foreign_writes>>

\* handlers that return MCP_999 without recording the outcome
GenerationFailed_Unrecorded(i, events, exception, rec) ==
    /\ Call(i, events)
    /\ Return(i, GenerationFailureResponse(exception))

\* an exception inside the try of lines 188-245: both handlers (247, 262)
\* record the outcome "error" and return MCP_999; when the recorder raises in
\* the handler, the handler at line 278 returns MCP_999
GenerationFailed(i, events, exception, rec) ==
    IF rec
    THEN /\ Call(i, events \o record_ai_invocation(req[i][1].model_id, "error"))
         /\ Return(i, GenerationFailureResponse(exception))
    ELSE /\ Call(i, events \o record_ai_invocation_raised(req[i][1].model_id, "error"))
         /\ Return(i, InternalErrorResponse("Exception"))

\* lines 187-195: adapter.generate returns or raises
Generate(i, out, rec) ==
    /\ pc[i] = "generate"
    /\ out \in GenerateOutcomes(loc[i].adapter[1])
    /\ IF out[1] = "raised"
       THEN GenerationFailed(i, <<E("generate", req[i][1].model_id, out)>>, out[2], rec)
       ELSE /\ Call(i, <<E("generate", req[i][1].model_id, out)>>)
            /\ Goto(i, "count_output", [loc[i] EXCEPT !.response_text = <<out[2]>>])
    /\ UNCHANGED <<probe, _adapters, _cache_manager, redis, started, served, req, began_after,
                   foreign_writes>>

\* lines 197-231 and cache.py 187-200: the count of the response returns or
\* raises; then the response is handed to CacheManager.set when the manager
\* looked up at line 129 is enabled, which awaits Redis only when connected
CountOutputTokens(i, out, rec) ==
    /\ pc[i] = "count_output"
    /\ IF out = <<>>
       THEN GenerationFailed(i, <<E("count_tokens", "response", out)>>, "Exception", rec)
       ELSE LET mgr == loc[i].cache_manager
                locals == [loc[i] EXCEPT
                             !.output_tokens = out,
                             !.total_tokens = TotalTokens(loc[i].total_input_tokens,
                                                          out[1])]
            IN /\ IF mgr # <<>> /\ mgr[1].enabled
                  THEN IF Usable(mgr)
                       THEN /\ Call(i, <<E("count_tokens", "response", out)>>)
                            /\ Goto(i, "redis_setex", locals)
                       ELSE /\ Call(i, <<E("count_tokens", "response", out),
                                         E("cache.set", req[i][1].model_id, <<FALSE>>)>>)
                            /\ Goto(i, "respond", locals)
                  ELSE /\ Call(i, <<E("count_tokens", "response", out)>>)
                       /\ Goto(i, "respond", locals)
    /\ UNCHANGED <<probe, _adapters, _cache_manager, redis, started, served, req, began_after,
                   foreign_writes>>

\* cache.py 196-213: the Redis SETEX ends; the entry holds the response text
\* and the total token count and lives for the default time-to-live
RedisSetex(i, ok) ==
    /\ pc[i] = "redis_setex"
    /\ redis' = CacheManager_set(redis, CacheKey(req[i][1], loc[i].context_data),
                                 Entry(loc[i].response_text, <<loc[i].total_tokens>>),
                                 <<>>, ok)
    /\ Call(i, <<E("redis.setex", req[i][1].model_id, <<ok>>)>>
                \o record_cache_operation("set", SetOutcome(ok))
                \o <<E("cache.set", req[i][1].model_id, <<ok>>)>>)
    /\ Goto(i, "respond", loc[i])
    /\ UNCHANGED <<probe, _adapters, _cache_manager, started, served, req,
                   began_after, foreign_writes>>

\* lines 235-245 and 262-276: the success metric reads prompt_tokens; when the
\* count of the prompt had raised the name is unbound, the UnboundLocalError is
\* caught at line 262 and the invocation returns MCP_999.  The same handler
\* catches the recorder raising on the success metric (rec is FALSE), and
\* records "error" in turn (rec2).
Respond(i, rec, rec2) ==
    /\ pc[i] = "respond"
    /\ IF loc[i].prompt_tokens = <<>>
       THEN GenerationFailed(i, <<>>, "Exception", rec2)
       ELSE IF rec
            THEN /\ Call(i, record_ai_invocation(req[i][1].model_id, "success"))
                 /\ Return(i, GeneratedResponse(loc[i].context_data[1],
                                                loc[i].response_text[1],
                                                loc[i].total_tokens))
            ELSE GenerationFailed(i, record_ai_invocation_raised(req[i][1].model_id,
                                                                 "success"),
                                  "Exception", rec2)
    /\ UNCHANGED <<probe, _adapters, _cache_manager, redis, started, served, req, began_after,
                   foreign_writes>>

-----------------------------------------------------------------------------
(* The shared Redis store *)

\* the keys invocations of this service address: an invocation reaches the
\* cache only with a model id that has an adapter
ServiceKeys ==
    {CacheKey(r, b) :
        r \in {q \in MCPInvokeRequest :
                 \E k \in DOMAIN OpenAIModels : OpenAIModels[k] = q.model_id},
        b \in {<<c>> : c \in ContextBlobs}}

\* another client of the store leaves a value under a key of this service.
\* An invocation reads its key once (GET) and writes it at most once (SETEX),
\* so a write by another client while it runs is seen by it as a write before
\* it began or after it returned: those are the moments modelled.
ForeignWrite(key, entry) ==
    /\ foreign_writes < MaxForeignWrites
    /\ \A i \in Invocations : pc[i] \in {"idle", "done"}
    /\ _cache_manager # <<>> /\ Usable(_cache_manager)
    /\ foreign_writes' = foreign_writes + 1
    /\ redis' = CacheManager_set(redis, key, entry, <<>>, TRUE)
    /\ UNCHANGED <<probe, _adapters, _cache_manager, started, served, pc, req,
                   loc, calls, result, began_after>>

-----------------------------------------------------------------------------

MockAdapter == [model_id |-> "gpt-4", cls |-> "MockAdapter"]

\* the steps of the invocations I, with requests and collaborator outcomes
\* drawn from the given sets
Step(I, requests, keys, https, counts, generated, oks, recs) ==
    \/ \E k \in keys : Lifespan(k[1], k[2], k[3])
    \/ Register("gpt-4", MockAdapter)
    \/ \E e \in BOOLEAN, p \in BOOLEAN : init_cache(e, p)
    \/ \E i \in I, r \in requests : ResolveAdapter(i, r)
    \/ \E i \in I, h \in https : FetchContext(i, h)
    \/ \E i \in I : CacheLookup(i)
    \/ \E i \in I, ok \in oks, rec \in recs : RedisGet(i, ok, rec)
    \/ \E i \in I, out \in counts : CountPromptTokens(i, out)
    \/ \E i \in I, out \in counts : CountContextTokens(i, out)
    \/ \E i \in I : TokenBudgetCheck(i)
    \/ \E i \in I, out \in generated, rec \in recs : Generate(i, out, rec)
    \/ \E i \in I, out \in counts, rec \in recs : CountOutputTokens(i, out, rec)
    \/ \E i \in I, ok \in oks : RedisSetex(i, ok)
    \/ \E i \in I, rec \in recs, rec2 \in recs : Respond(i, rec, rec2)
    \/ \E k \in ServiceKeys, e \in MalformedEntries : ForeignWrite(k, e)

\* one request at a time
Next ==
    Step({1}, MCPInvokeRequest, {<<TRUE, TRUE, {}>>}, HttpOutcomes,
         CountOutcomes, GenerateOutcomes(MockAdapter), BOOLEAN, BOOLEAN)

Spec == Init /\ [][Next]_vars

\* two clients sending the same request, served in either order or overlapping,
\* with a context provider, an adapter, a store and a recorder that answer
PairRequests ==
    {r \in MCPInvokeRequest : r.model_id = "gpt-4"}

NextPair ==
    Step(Invocations, PairRequests, {<<TRUE, TRUE, {}>>}, {<<"ok", UnitContext>>},
         {<<n>> : n \in TokenCounts}, {<<"returned", t>> : t \in ResponseTexts},
         {TRUE}, {TRUE})

SpecPair == Init /\ [][NextPair]_vars

-----------------------------------------------------------------------------
(* The fingerprint, computed by a get and by a set (cache.py 140-143, 191-194) *)

ReversedUnitContext == << <<"content", "text">>, <<"wisunit_id", "test_001">> >>
OtherUnitContext == << <<"wisunit_id", "test_001">>, <<"content", "other">> >>
OpaqueContext == << <<"handle", Unserializable>> >>
OpaqueUnitContext == << <<"content", "text">>, <<"handle", Unserializable>> >>

\* the arguments a caller may pass to CacheManager.get and CacheManager.set
KeyArguments ==
    [model_id : {"gpt-4", "glm-4"},
     prompt : {"Hello, WisHub!", "Hello"},
     context_data : {<<>>, <<EmptyContext>>, <<UnitContext>>, <<ReversedUnitContext>>,
                     <<OtherUnitContext>>, <<OpaqueContext>>, <<OpaqueUnitContext>>},
     temperature : {7, 10},
     max_tokens : {10, 2000}]

InitKey ==
    /\ Fresh
    /\ probe \in [get_args : KeyArguments, set_args : KeyArguments,
                  get_key : {<<>>}, set_key : {<<>>}]

\* CacheManager.get, lines 140-143: the key it reads
Fingerprint_get ==
    /\ probe.get_key = <<>>
    /\ probe' = [probe EXCEPT
                    !.get_key = <<CacheKey(probe.get_args, probe.get_args.context_data)>>]
    /\ UNCHANGED pipeline

\* CacheManager.set, lines 191-194: the key it writes
Fingerprint_set ==
    /\ probe.set_key = <<>>
    /\ probe' = [probe EXCEPT
                    !.set_key = <<CacheKey(probe.set_args, probe.set_args.context_data)>>]
    /\ UNCHANGED pipeline

NextKey == Fingerprint_get \/ Fingerprint_set

SpecKey == InitKey /\ [][NextKey]_vars

-----------------------------------------------------------------------------
(* CacheManager.set and CacheManager.get called directly, with the clock of
   the Redis server *)

\* how many times the clock is advanced
MaxElapses == 3
\* how many times set is called
MaxSets == 2

\* the inputs of the calls: two requests that differ in the prompt
CacheInputs ==
    [model_id : {"gpt-4"}, prompt : {"Hello, WisHub!", "Hello"},
     context_data : {<<UnitContext>>}, temperature : {7}, max_tokens : {2000}]

\* response_data values
CacheValues == {Entry(<<"answer">>, <<9>>), Entry(<<"other">>, <<0>>)}

\* the ttl argument of set: omitted, 0, one second, a negative number
TtlArguments == {<<>>, <<0>>, <<1>>, <<-1>>}

\* the steps of the clock, in seconds
Elapses == {1, 3598}

\* a CacheManager after connect(): disabled, enabled without a connection,
\* enabled and connected
Managers ==
    {[enabled |-> FALSE, _client |-> FALSE], [enabled |-> TRUE, _client |-> FALSE],
     [enabled |-> TRUE, _client |-> TRUE]}

\* Redis rejects SETEX with an expiry that is not positive
SetexAccepted(ttl) == SetexSeconds(ttl, DEFAULT_TTL) > 0

\* probe.sets[a]: the last set with inputs a, its age in seconds and what it
\* returned; probe.got: the get just made, if the last call was a get
InitCache ==
    /\ Fresh
    /\ probe \in [mgr : Managers, elapses : {0}, set_calls : {0},
                  sets : {[a \in CacheInputs |-> <<>>]}, got : {<<>>}]

\* what a direct call on the CacheManager leaves alone besides the store
besides_store ==
    <<_adapters, _cache_manager, started, served, pc, req, loc, calls, result,
      began_after, foreign_writes>>

\* CacheManager.set(a, response_data, ttl); ok: the store was reachable
Cache_set(a, response_data, ttl, ok) ==
    LET done == Usable(<<probe.mgr>>) /\ ok /\ SetexAccepted(ttl) IN
    /\ probe.set_calls < MaxSets
    /\ redis' = IF Usable(<<probe.mgr>>)
                THEN CacheManager_set(redis, CacheKey(a, a.context_data),
                                      response_data, ttl, done)
                ELSE redis
    /\ probe' = [probe EXCEPT !.sets[a] = <<[value |-> response_data, ttl |-> ttl,
                                            age |-> 0, returned |-> done]>>,
                              !.set_calls = @ + 1,
                              !.got = <<>>]
    /\ UNCHANGED besides_store

\* CacheManager.get(a); ok: the store was reachable
Cache_get(a, ok) ==
    LET got == IF Usable(<<probe.mgr>>)
               THEN CacheManager_get(redis, CacheKey(a, a.context_data), ok)
               ELSE [returned |-> <<>>, outcome |-> "unusable"] IN
    /\ probe' = [probe EXCEPT !.got = <<[inputs |-> a, returned |-> got.returned,
                                         outcome |-> got.outcome]>>]
    /\ UNCHANGED pipeline

\* seconds pass: Redis drops the keys whose expiry is reached
Elapse(seconds) ==
    /\ probe.elapses < MaxElapses
    /\ redis' = [k \in {j \in DOMAIN redis : redis[j].ttl > seconds} |->
                    [redis[k] EXCEPT !.ttl = @ - seconds]]
    /\ probe' = [probe EXCEPT
                    !.elapses = @ + 1,
                    !.got = <<>>,
                    !.sets = [a \in CacheInputs |->
                                IF probe.sets[a] = <<>> THEN <<>>
                                ELSE <<[probe.sets[a][1] EXCEPT !.age = @ + seconds]>>]]
    /\ UNCHANGED besides_store

NextCache ==
    \/ \E a \in CacheInputs, v \in CacheValues, ttl \in TtlArguments, ok \in BOOLEAN :
          Cache_set(a, v, ttl, ok)
    \/ \E a \in CacheInputs, ok \in BOOLEAN : Cache_get(a, ok)
    \/ \E seconds \in Elapses : Elapse(seconds)

SpecCache == InitCache /\ [][NextCache]_vars

-----------------------------------------------------------------------------
(* AIAdapterRegistry.register, get and list_models called directly *)

\* how many times register is called
MaxRegisters == 3

\* the ids the calls name
RegistryIds == {"mock-model", "gpt-4", "glm-4"}

\* the adapter objects the calls pass
RegistryAdapters ==
    {[model_id |-> "mock-model", cls |-> "MockAdapter"],
     [model_id |-> "gpt-4", cls |-> "OpenAIAdapter"]}

\* probe.registered: the register calls made, in order; probe.got,
\* probe.listed and probe.models: the get, the list_models or the GET
\* /mcp/models just made, if the last call was one
InitRegistry ==
    /\ Fresh
    /\ probe = [registered |-> <<>>, got |-> <<>>, listed |-> <<>>, models |-> <<>>]

besides_registry ==
    <<_cache_manager, redis, started, served, pc, req, loc, calls, result,
      began_after, foreign_writes>>

\* AIAdapterRegistry.register(model_id, adapter)
Registry_register(model_id, adapter) ==
    /\ Len(probe.registered) < MaxRegisters
    /\ _adapters' = register(_adapters, model_id, adapter)
    /\ probe' = [registered |-> Append(probe.registered, <<model_id, adapter>>),
                 got |-> <<>>, listed |-> <<>>, models |-> <<>>]
    /\ UNCHANGED besides_registry

\* AIAdapterRegistry.get(model_id): returned is <<>> when it raised ValueError
Registry_get(model_id) ==
    /\ probe' = [probe EXCEPT
                    !.got = <<[model_id |-> model_id,
                               returned |-> RegistryGet(_adapters, model_id),
                               before |-> _adapters]>>,
                    !.listed = <<>>, !.models = <<>>]
    /\ UNCHANGED pipeline

\* AIAdapterRegistry.list_models()
Registry_list_models ==
    /\ probe' = [probe EXCEPT !.listed = <<list_models(_adapters)>>, !.got = <<>>,
                              !.models = <<>>]
    /\ UNCHANGED pipeline

\* a listing cut after its first model id
ModelsResponse_FirstOnly(models) ==
    [status |-> "success", count |-> Len(models),
     models |-> IF models = <<>> THEN <<>> ELSE <<models[1]>>]

\* routes/mcp.py list_models(): the body of the answer
ModelsResponse(models) ==
    [status |-> "success", models |-> models, count |-> Len(models)]

\* GET /mcp/models
GetModels ==
    /\ probe' = [probe EXCEPT !.models = <<ModelsResponse(list_models(_adapters))>>,
                              !.got = <<>>, !.listed = <<>>]
    /\ UNCHANGED pipeline

NextRegistry ==
    \/ \E model_id \in RegistryIds, adapter \in RegistryAdapters :
          Registry_register(model_id, adapter)
    \/ \E model_id \in RegistryIds : Registry_get(model_id)
    \/ Registry_list_models
    \/ GetModels

SpecRegistry == InitRegistry /\ [][NextRegistry]_vars

-----------------------------------------------------------------------------
(* AIAdapterFactory called directly *)

\* how many times register_adapter is called
MaxFactoryRegisters == 2
\* how many times initialize_adapters is called
MaxInitializes == 1

\* the ids the calls name: the tests' custom id, a built-in id, an unmapped id
FactoryIds == {"custom-model", "gpt-4", "unknown-model"}

\* the types passed to register_adapter: adapter classes, the abstract base,
\* a type that is no adapter
FactoryTypes == {"MockAdapter", "ZhipuAdapter", "BaseAIAdapter", "dict"}

\* the model ids whose constructor may raise at startup
FailingIds == {"gpt-4", "gpt-4o", "glm-4"}

\* one call on the factory: its arguments, how it ended, and the table and the
\* registry it found
FactoryCall(op, model_id, arg, out) ==
    [op |-> op, model_id |-> model_id, arg |-> arg, out |-> out,
     table |-> probe.MODEL_ADAPTERS, registry |-> _adapters]

\* probe.call: the call just made
InitFactory ==
    /\ Fresh
    /\ probe = [MODEL_ADAPTERS |-> MODEL_ADAPTERS, registers |-> 0,
                initializes |-> 0, call |-> <<>>]

\* AIAdapterFactory.register_adapter(model_id, adapter_class)
Factory_register_adapter(model_id, adapter_class) ==
    LET done == register_adapter(probe.MODEL_ADAPTERS, model_id, adapter_class) IN
    /\ probe.registers < MaxFactoryRegisters
    /\ probe' = [probe EXCEPT
                    !.MODEL_ADAPTERS = done.table,
                    !.registers = @ + 1,
                    !.call = <<FactoryCall("register_adapter", model_id,
                                           <<adapter_class>>, done.out)>>]
    /\ UNCHANGED pipeline

\* AIAdapterFactory.create_adapter(model_id, api_key)
Factory_create_adapter(model_id, constructed) ==
    /\ probe' = [probe EXCEPT
                    !.call = <<FactoryCall("create_adapter", model_id, <<constructed>>,
                                           create_adapter(probe.MODEL_ADAPTERS, model_id,
                                                          constructed))>>]
    /\ UNCHANGED pipeline

\* AIAdapterFactory.list_supported_models()
Factory_list_supported_models ==
    /\ probe' = [probe EXCEPT
                    !.call = <<FactoryCall("list_supported_models", "", <<>>,
                                  <<"returned",
                                    list_supported_models(probe.MODEL_ADAPTERS)>>)>>]
    /\ UNCHANGED pipeline

\* AIAdapterFactory.initialize_adapters(config), as lifespan calls it
Factory_initialize_adapters(openai_api_key, zhipu_api_key, failing) ==
    /\ probe.initializes < MaxInitializes
    /\ _adapters' = initialize_adapters(_adapters, probe.MODEL_ADAPTERS, openai_api_key,
                                        zhipu_api_key, failing)
    /\ probe' = [probe EXCEPT
                    !.initializes = @ + 1,
                    !.call = <<FactoryCall("initialize_adapters", "",
                                  <<[openai_api_key |-> openai_api_key,
                                     zhipu_api_key |-> zhipu_api_key,
                                     failing |-> failing]>>,
                                  <<"returned">>)>>]
    /\ UNCHANGED besides_registry

NextFactory ==
    \/ \E model_id \in FactoryIds \ {"unknown-model"}, adapter_class \in FactoryTypes :
          Factory_register_adapter(model_id, adapter_class)
    \/ \E model_id \in FactoryIds, constructed \in BOOLEAN :
          Factory_create_adapter(model_id, constructed)
    \/ Factory_list_supported_models
    \/ \E openai_api_key \in BOOLEAN, zhipu_api_key \in BOOLEAN,
          failing \in SUBSET FailingIds :
          Factory_initialize_adapters(openai_api_key, zhipu_api_key, failing)

SpecFactory == InitFactory /\ [][NextFactory]_vars

-----------------------------------------------------------------------------
(* CacheManager.clear_model_cache called directly, on a store that set fills
   and whose entries expire *)

\* the inputs of the entries: three model ids, one of them a custom id with a
\* colon in it
ClearModels == {"gpt-4", "gpt-4-turbo", "gpt-4:ft"}
ClearInputs ==
    [model_id : ClearModels, prompt : {"Hello, WisHub!"},
     context_data : {<<UnitContext>>}, temperature : {7}, max_tokens : {10, 2000}]

\* probe.scanned: the keys a running clear_model_cache has collected;
\* probe.cleared: the clear_model_cache that just returned, with the store it
\* found, how many keys its DEL removed and whether the store changed between
\* its SCAN and its DEL
InitClear ==
    /\ Fresh
    /\ probe \in [mgr : Managers, scanned : {<<>>}, cleared : {<<>>}]

\* CacheManager.set(a, response_data) by a user of the cache
Clear_set(a) ==
    /\ Usable(<<probe.mgr>>)
    /\ redis' = CacheManager_set(redis, CacheKey(a, a.context_data),
                                 Entry(<<"answer">>, <<9>>), <<>>, TRUE)
    /\ probe' = [probe EXCEPT !.cleared = <<>>]
    /\ UNCHANGED besides_store

\* the expiry of a key is reached
Clear_expire(key) ==
    /\ key \in DOMAIN redis
    /\ redis' = [k \in DOMAIN redis \ {key} |-> redis[k]]
    /\ probe' = [probe EXCEPT !.cleared = <<>>]
    /\ UNCHANGED besides_store

\* clear_model_cache, lines 247-255: return 0 on an unusable manager, else
\* SCAN the keys that match the pattern (ok: the scan did not raise)
clear_model_cache_scan(model_id, ok) ==
    /\ probe.scanned = <<>>
    /\ probe' = IF Usable(<<probe.mgr>>) /\ ok
                THEN [probe EXCEPT
                        !.scanned = <<[model_id |-> model_id,
                                       keys |-> {k \in DOMAIN redis :
                                                   MatchesPattern(model_id, k)},
                                       found |-> redis]>>,
                        !.cleared = <<>>]
                ELSE [probe EXCEPT
                        !.cleared = <<[model_id |-> model_id, returned |-> 0,
                                       removed |-> 0,
                                       found |-> redis, quiet |-> TRUE,
                                       completed |-> FALSE]>>]
    /\ UNCHANGED pipeline

\* clear_model_cache, lines 257-264: DEL the collected keys, if any, and
\* return how many were collected; 0 when the DEL raised
clear_model_cache_delete(ok) ==
    /\ probe.scanned # <<>>
    /\ LET keys == probe.scanned[1].keys
           raised == keys # {} /\ ~ok IN
       /\ redis' = IF raised THEN redis
                   ELSE [k \in DOMAIN redis \ keys |-> redis[k]]
       /\ probe' = [probe EXCEPT
                      !.scanned = <<>>,
                      !.cleared = <<[model_id |-> probe.scanned[1].model_id,
                                     returned |-> IF raised THEN 0
                                                  ELSE Cardinality(keys),
                                     removed |-> IF raised THEN 0
                                                 ELSE Cardinality(keys \cap DOMAIN redis),
                                     found |-> probe.scanned[1].found,
                                     quiet |-> redis = probe.scanned[1].found,
                                     completed |-> ~raised]>>]
    /\ UNCHANGED besides_store

NextClear ==
    \/ \E a \in ClearInputs : Clear_set(a)
    \/ \E key \in DOMAIN redis : Clear_expire(key)
    \/ \E model_id \in ClearModels, ok \in BOOLEAN : clear_model_cache_scan(model_id, ok)
    \/ \E ok \in BOOLEAN : clear_model_cache_delete(ok)

SpecClear == InitClear /\ [][NextClear]_vars

-----------------------------------------------------------------------------
(* POST /mcp/invoke as the framework serves it: the X-API-Key header and the
   body are checked before invoke_mcp is called *)

\* how many requests are posted
MaxPosts == 1

\* the bodies posted: the three required fields, prompt possibly missing, and
\* the optional fields missing, in bounds, at the bounds and out of bounds
PostedBodies ==
    [context_id : {<<"ctx_001">>}, model_id : {<<"gpt-4">>},
     prompt : {<<>>, <<"Hello, WisHub!">>},
     context_type : {<<>>, <<"knowledge_graph">>, <<"bogus">>},
     max_tokens : {<<>>, <<0>>, <<1>>, <<8192>>, <<8193>>, <<10000>>},
     temperature : {<<>>, <<-1>>, <<0>>, <<5>>, <<20>>, <<21>>}]

\* the X-API-Key header: absent, empty, or a key
PostedKeys == {<<>>, <<"">>, <<"test-key">>}

\* verify_api_key behind Header(...): a request without the header fails the
\* validation of the dependency (422) before verify_api_key runs; with the
\* header, an empty key is refused with 401 when AUTH_REQUIRED
verify_api_key(AUTH_REQUIRED, x_api_key) ==
    IF x_api_key = <<>> THEN <<"rejected", 422>>
    ELSE IF AUTH_REQUIRED /\ x_api_key[1] = "" THEN <<"rejected", 401>>
    ELSE <<"returned", x_api_key[1]>>

\* the part of the pipeline state a request changes when it is handled
handled == <<served, pc, req, loc, calls, result, began_after, redis>>

\* probe.http: the request just posted, how it was answered, and the state it
\* found
InitHttp ==
    /\ Fresh
    /\ probe \in [AUTH_REQUIRED : BOOLEAN, posts : {0}, http : {<<>>}]

\* POST /mcp/invoke: the dependency, then the body, then the handler
Post(i, x_api_key, body) ==
    LET key == verify_api_key(probe.AUTH_REQUIRED, x_api_key)
        request == Validate(body)
        status == IF key[1] = "rejected" THEN key[2]
                  ELSE IF request = <<>> THEN 422 ELSE 200
    IN /\ probe.posts < MaxPosts
       /\ pc[i] \in {"idle", "done"}
       /\ probe' = [probe EXCEPT
                      !.posts = @ + 1,
                      !.http = <<[x_api_key |-> x_api_key, body |-> body,
                                  status |-> status, found |-> handled]>>]
       /\ IF status = 200 THEN invoke_mcp(i, request[1]) ELSE UNCHANGED pipeline

NextHttp ==
    \/ Lifespan(TRUE, TRUE, {})
    \/ Register("gpt-4", MockAdapter)
    \/ \E e \in BOOLEAN, p \in BOOLEAN : init_cache(e, p)
    \/ \E x_api_key \in PostedKeys, body \in PostedBodies : Post(1, x_api_key, body)
    \/ FetchContext(1, <<"ok", UnitContext>>)
    \/ CacheLookup(1)
    \/ RedisGet(1, TRUE, TRUE)
    \/ \E n \in TokenCounts : CountPromptTokens(1, <<n>>)
    \/ \E n \in TokenCounts : CountContextTokens(1, <<n>>)
    \/ TokenBudgetCheck(1)
    \/ \E t \in ResponseTexts : Generate(1, <<"returned", t>>, TRUE)
    \/ \E n \in TokenCounts : CountOutputTokens(1, <<n>>, TRUE)
    \/ RedisSetex(1, TRUE)
    \/ Respond(1, TRUE, TRUE)

SpecHttp == InitHttp /\ [][NextHttp]_vars

-----------------------------------------------------------------------------
(* monitoring/health.py and GET /health *)

HealthStatus == {"healthy", "unhealthy", "degraded"}

\* the names of the dependencies: the two the endpoint checks, and another
DependencyNames == {"redis", "wishub_core", "other"}

\* dicts of dependency results, as a function from the names to the statuses
DependencyResults ==
    UNION {[names -> HealthStatus] : names \in SUBSET DependencyNames}

\* what GET {WISHUB_CORE_URL}/health may do
CoreOutcomes == {<<"status", 200>>, <<"status", 503>>, <<"timeout">>, <<"error">>}

\* an overall status that is healthy as soon as one dependency is
get_overall_status_AnyHealthy(dependencies) ==
    IF \E n \in DOMAIN dependencies : dependencies[n] = "healthy" THEN "healthy"
    ELSE IF \E n \in DOMAIN dependencies : dependencies[n] = "unhealthy" THEN "unhealthy"
    ELSE "degraded"

\* get_overall_status
get_overall_status(dependencies) ==
    IF \A n \in DOMAIN dependencies : dependencies[n] = "healthy" THEN "healthy"
    ELSE IF \E n \in DOMAIN dependencies : dependencies[n] = "unhealthy" THEN "unhealthy"
    ELSE "degraded"

\* check_redis: ping on the client, which is None when there is no connected
\* cache manager; any exception gives unhealthy
check_redis(redis_client, ping_ok) ==
    IF redis_client /\ ping_ok THEN "healthy" ELSE "unhealthy"

\* check_wishub_core
check_wishub_core(outcome) ==
    IF outcome = <<"status", 200>> THEN "healthy" ELSE "unhealthy"

\* dependencies with results[name] = status
WithResult(dependencies, name, status) ==
    [n \in DOMAIN dependencies \cup {name} |->
        IF n = name THEN status ELSE dependencies[n]]

\* probe.given: the argument of a direct call of get_overall_status and
\* probe.overall its result; probe.at, probe.results and probe.response: the
\* progress of health_check
InitHealth ==
    /\ Fresh
    /\ probe \in [given : DependencyResults, overall : {<<>>},
                  redis_client : BOOLEAN, WISHUB_CORE_URL : BOOLEAN,
                  at : {"idle"}, results : {<<>>}, response : {<<>>}]

\* get_overall_status(dependencies) called directly
OverallStatus ==
    /\ probe.overall = <<>>
    /\ probe' = [probe EXCEPT !.overall = <<get_overall_status(probe.given)>>]
    /\ UNCHANGED pipeline

\* perform_health_checks, lines 151-155
CheckRedis(ping_ok) ==
    /\ probe.at = "idle"
    /\ probe' = [probe EXCEPT
                    !.at = "core",
                    !.results = WithResult(<<>>, "redis",
                                           check_redis(probe.redis_client, ping_ok)),
                    !.response = <<>>]
    /\ UNCHANGED pipeline

\* perform_health_checks, lines 157-160
CheckCore(outcome) ==
    /\ probe.at = "core"
    /\ probe' = [probe EXCEPT
                    !.at = "respond",
                    !.results = IF probe.WISHUB_CORE_URL
                                THEN WithResult(probe.results, "wishub_core",
                                                check_wishub_core(outcome))
                                ELSE probe.results]
    /\ UNCHANGED pipeline

\* health_check, lines 110-119
HealthRespond ==
    /\ probe.at = "respond"
    /\ probe' = [probe EXCEPT
                    !.at = "idle",
                    !.response = <<[status |-> get_overall_status(probe.results),
                                    dependencies |-> probe.results]>>]
    /\ UNCHANGED pipeline

NextHealth ==
    \/ OverallStatus
    \/ \E ping_ok \in BOOLEAN : CheckRedis(ping_ok)
    \/ \E outcome \in CoreOutcomes : CheckCore(outcome)
    \/ HealthRespond

SpecHealth == InitHealth /\ [][NextHealth]_vars

-----------------------------------------------------------------------------
(* adapters/openai.py, adapters/zhipu.py: count_tokens called twice on one
   adapter with one text *)

\* the texts counted; "u6d4b u8bd5 u63d0 u793a" stands for the four Chinese
\* characters of the prompt of test_mcp_invoke_request_custom_params
CountedTexts == {"Hello, WisHub!", "u6d4b u8bd5 u63d0 u793a", "Hello", ""}

\* the characters of a text: those in U+4E00..U+9FFF, and the others
Characters(text) ==
    CASE text = "Hello, WisHub!" -> [chinese |-> 0, english |-> 14]
      [] text = "u6d4b u8bd5 u63d0 u793a" -> [chinese |-> 4, english |-> 0]
      [] text = "Hello" -> [chinese |-> 0, english |-> 5]
      [] OTHER -> [chinese |-> 0, english |-> 0]

\* tiktoken.encoding_for_model(model_id), cl100k_base for a model it does not
\* know
Encoding(model_id) == IF model_id = "gpt-4o" THEN "o200k_base" ELSE "cl100k_base"

\* len(self.encoding.encode(text)): a number the encoding and the text fix
TiktokenCount(encoding, text) == <<"len", encoding, text>>

\* int(chinese_chars * 1.5 + english_chars / 4)
Estimate(text) == (6 * Characters(text).chinese + Characters(text).english) \div 4

\* what self.client.tokens.count may do: raise (<<>>), or report a total
BackendCounts == {<<>>} \cup {<<n>> : n \in TokenCounts}

\* OpenAIAdapter.count_tokens
OpenAI_count_tokens(adapter, text) == <<TiktokenCount(Encoding(adapter.model_id), text)>>

\* ZhipuAdapter.count_tokens: the total the back-end reports, the estimate
\* when the call raised
Zhipu_count_tokens(adapter, text, backend) ==
    IF backend = <<>> THEN <<Estimate(text)>> ELSE backend

\* adapter.count_tokens(text)
count_tokens(adapter, text, backend) ==
    IF adapter.cls = "ZhipuAdapter" THEN Zhipu_count_tokens(adapter, text, backend)
    ELSE OpenAI_count_tokens(adapter, text)

\* the adapters initialize_adapters can build
BuiltAdapters ==
    {[model_id |-> OpenAIModels[k], cls |-> "OpenAIAdapter"] : k \in DOMAIN OpenAIModels}
        \cup {[model_id |-> ZhipuModels[k], cls |-> "ZhipuAdapter"] :
                 k \in DOMAIN ZhipuModels}

\* probe.counted: the results of the calls made so far, at most two
InitCount ==
    /\ Fresh
    /\ probe \in [adapter : BuiltAdapters, text : CountedTexts, counted : {<<>>}]

\* one call of probe.adapter.count_tokens(probe.text); the adapter is not
\* assigned to
CountTokens(backend) ==
    /\ Len(probe.counted) < 2
    /\ probe' = [probe EXCEPT
                    !.counted = Append(@, [backend |-> backend,
                                           returned |-> count_tokens(probe.adapter,
                                                                     probe.text,
                                                                     backend)])]
    /\ UNCHANGED pipeline

NextCount == \E backend \in BackendCounts : CountTokens(backend)

SpecCount == InitCount /\ [][NextCount]_vars

-----------------------------------------------------------------------------
(* CacheManager.get, set and delete called directly, with a store that fails,
   values json cannot handle and another client leaving a cut-off text *)

\* the text of an entry, cut off by another client: json.loads rejects it
Truncated == << <<"response">> >>

\* json.loads accepts the text: every member has its value
Parses(cached_data) == \A k \in DOMAIN cached_data : Len(cached_data[k]) = 2

\* json.dumps accepts the dict: its response is no object it cannot encode
Serializes(response_data) == response_data.response # <<Unserializable>>

\* the result of a call on the manager: how it ended (<<"returned", value>> or
\* <<"raised", exception>>), the statuses it counted with
\* record_cache_operation, in order, and the keyspace afterwards
Ended(out, counted, store) == [out |-> out, counted |-> counted, store |-> store]

\* CacheManager.get, lines 136-160; ok: the Redis GET did not raise.  The hit
\* is counted before json.loads runs, so a text it rejects is counted as a
\* hit and then as an error.
Manager_get(mgr, store, key, ok) ==
    IF ~Usable(<<mgr>>) THEN Ended(<<"returned", <<>>>>, <<>>, store)
    ELSE IF ~ok THEN Ended(<<"returned", <<>>>>, <<"error">>, store)
    ELSE IF key \notin DOMAIN store THEN Ended(<<"returned", <<>>>>, <<"miss">>, store)
    ELSE IF ~Parses(store[key].value)
         THEN Ended(<<"returned", <<>>>>, <<"hit", "error">>, store)
         ELSE Ended(<<"returned", CacheManager_get(store, key, TRUE).returned>>,
                    <<"hit">>, store)

\* a set whose handler logs the error and raises it again
Manager_set_Reraises(mgr, store, key, response_data, ttl, ok) ==
    IF ~Usable(<<mgr>>) THEN Ended(<<"returned", FALSE>>, <<>>, store)
    ELSE IF ~Serializes(response_data) THEN Ended(<<"raised", "TypeError">>, <<"error">>, store)
    ELSE IF ~ok THEN Ended(<<"raised", "ConnectionError">>, <<"error">>, store)
    ELSE IF ~SetexAccepted(ttl) THEN Ended(<<"raised", "ResponseError">>, <<"error">>, store)
    ELSE Ended(<<"returned", TRUE>>, <<"success">>,
               CacheManager_set(store, key, response_data, ttl, TRUE))

\* CacheManager.set, lines 187-213; ok: the Redis SETEX was delivered.
\* json.dumps raises on a value it cannot encode, SETEX on a failed connection
\* or an expiry that is not positive; all three end in the handler of line 210.
Manager_set(mgr, store, key, response_data, ttl, ok) ==
    IF ~Usable(<<mgr>>) THEN Ended(<<"returned", FALSE>>, <<>>, store)
    ELSE IF ~Serializes(response_data) \/ ~ok \/ ~SetexAccepted(ttl)
         THEN Ended(<<"returned", FALSE>>, <<"error">>, store)
         ELSE Ended(<<"returned", TRUE>>, <<"success">>,
                    CacheManager_set(store, key, response_data, ttl, TRUE))

\* Redis DEL: the keyspace without the key
CacheManager_delete(store, key) == [k \in DOMAIN store \ {key} |-> store[k]]

\* CacheManager.delete, lines 225-235; ok: the Redis DEL did not raise
Manager_delete(mgr, store, key, ok) ==
    IF ~Usable(<<mgr>>) THEN Ended(<<"returned", FALSE>>, <<>>, store)
    ELSE IF ~ok THEN Ended(<<"returned", FALSE>>, <<"error">>, store)
    ELSE Ended(<<"returned", TRUE>>, <<"success">>, CacheManager_delete(store, key))

\* response_data values: two entries and one whose response is no text
FaultValues == CacheValues \cup {Entry(<<Unserializable>>, <<9>>)}

\* probe.call: the call just made: the operation, whether the store raised
\* on it, whether json could not handle the value, how the call ended and
\* whether it changed the keyspace
InitFaults ==
    /\ Fresh
    /\ probe \in [mgr : Managers, call : {<<>>}]

Faulty(operation, store_raised, json_raised, ended) ==
    [operation |-> operation, store_raised |-> store_raised,
     json_raised |-> json_raised, out |-> ended.out, counted |-> ended.counted,
     changed |-> ended.store # redis]

Faults_get(a, ok) ==
    LET key == CacheKey(a, a.context_data)
        ended == Manager_get(probe.mgr, redis, key, ok) IN
    /\ redis' = ended.store
    /\ probe' = [probe EXCEPT !.call =
                    <<Faulty("get", Usable(<<probe.mgr>>) /\ ~ok,
                             /\ Usable(<<probe.mgr>>) /\ ok /\ key \in DOMAIN redis
                             /\ ~Parses(redis[key].value),
                             ended)>>]
    /\ UNCHANGED besides_store

Faults_set(a, response_data, ttl, ok) ==
    LET ended == Manager_set(probe.mgr, redis, CacheKey(a, a.context_data),
                             response_data, ttl, ok) IN
    /\ redis' = ended.store
    /\ probe' = [probe EXCEPT !.call =
                    <<Faulty("set",
                             /\ Usable(<<probe.mgr>>) /\ Serializes(response_data)
                             /\ ~ok \/ ~SetexAccepted(ttl),
                             Usable(<<probe.mgr>>) /\ ~Serializes(response_data),
                             ended)>>]
    /\ UNCHANGED besides_store

Faults_delete(a, ok) ==
    LET ended == Manager_delete(probe.mgr, redis, CacheKey(a, a.context_data), ok) IN
    /\ redis' = ended.store
    /\ probe' = [probe EXCEPT !.call =
                    <<Faulty("delete", Usable(<<probe.mgr>>) /\ ~ok, FALSE, ended)>>]
    /\ UNCHANGED besides_store

\* another client of the store leaves a cut-off text under a key of the service
Garble(a) ==
    /\ redis' = [k \in DOMAIN redis \cup {CacheKey(a, a.context_data)} |->
                    IF k = CacheKey(a, a.context_data)
                    THEN [value |-> Truncated, ttl |-> DEFAULT_TTL]
                    ELSE redis[k]]
    /\ probe' = [probe EXCEPT !.call = <<>>]
    /\ UNCHANGED besides_store

NextFaults ==
    \/ \E a \in CacheInputs, ok \in BOOLEAN : Faults_get(a, ok)
    \/ \E a \in CacheInputs, v \in FaultValues, ttl \in TtlArguments, ok \in BOOLEAN :
          Faults_set(a, v, ttl, ok)
    \/ \E a \in CacheInputs, ok \in BOOLEAN : Faults_delete(a, ok)
    \/ \E a \in CacheInputs : Garble(a)

SpecFaults == InitFaults /\ [][NextFaults]_vars

-----------------------------------------------------------------------------
(* Vocabulary of the properties *)

Done(i) == pc[i] = "done"
Response(i) == result[i][1]

\* the completed calls of invocation i to op
CallsTo(i, op) == {k \in DOMAIN calls[i] : calls[i][k].op = op}
Called(i, op) == CallsTo(i, op) # {}
\* ... with the given argument
CallsOn(i, op, arg) == {k \in CallsTo(i, op) : calls[i][k].arg = arg}
\* the outcome of the only call to op with that argument
Outcome(i, op, arg) == calls[i][CHOOSE k \in CallsOn(i, op, arg) : TRUE].out

Failed(i, code) ==
    /\ Done(i)
    /\ Response(i).status = <<"error">>
    /\ Response(i).error # <<>>
    /\ Response(i).error[1].code = code

Succeeded(i) == Done(i) /\ Response(i).status = <<"success">>

\* the operations of the stages after FetchContext
CacheOps == {"cache.get", "redis.get", "cache.set", "redis.setex"}
AdapterOps == {"count_tokens", "generate"}

Bound(i) == req[i] # <<>> /\ req[i][1].model_id \in BoundIds(_adapters)

\* the context fetch of invocation i raised
FetchRaised(i) ==
    /\ Called(i, "get_knowledge_context")
    /\ \E k \in CallsTo(i, "get_knowledge_context") : calls[i][k].out[1] = "raised"

\* both input counts of invocation i returned, with this total
InputCounted(i) ==
    /\ CallsOn(i, "count_tokens", "prompt") # {}
    /\ CallsOn(i, "count_tokens", "context") # {}
    /\ Outcome(i, "count_tokens", "prompt") # <<>>
    /\ Outcome(i, "count_tokens", "context") # <<>>
InputTokens(i) ==
    Outcome(i, "count_tokens", "prompt")[1] + Outcome(i, "count_tokens", "context")[1]

\* a count of the input raised in invocation i
InputCountRaised(i) ==
    \E t \in {"prompt", "context"} :
        CallsOn(i, "count_tokens", t) # {} /\ Outcome(i, "count_tokens", t) = <<>>

\* adapter.generate returned a text / raised in invocation i
Generated(i) ==
    \E k \in CallsTo(i, "generate") : calls[i][k].out[1] = "returned"
GenerateRaised(i) ==
    \E k \in CallsTo(i, "generate") : calls[i][k].out[1] = "raised"
GeneratedText(i) ==
    calls[i][CHOOSE k \in CallsTo(i, "generate") : TRUE].out[2]
OutputCounted(i) ==
    /\ CallsOn(i, "count_tokens", "response") # {}
    /\ Outcome(i, "count_tokens", "response") # <<>>

\* CacheManager.get returned an entry to invocation i (a cache hit)
CacheHit(i) ==
    \E k \in CallsTo(i, "cache.get") : calls[i][k].out # <<>>
HitEntry(i) ==
    calls[i][CHOOSE k \in CallsTo(i, "cache.get") : TRUE].out[1]

\* an invocation metric of invocation i
Metrics(i) == CallsTo(i, "ai_invocations_total.inc")
\* the metrics recorder raised in invocation i
RecorderRaised(i) == Called(i, "record_ai_invocation.raised")

-----------------------------------------------------------------------------
(* C1..C10: the staged failure model of invoke_mcp *)

\* C1: an invocation whose model_id has no adapter bound in the registry
\* returns status "error" with code MCP_002 at once, and makes no call to the
\* context provider, the cache or the adapter (count_tokens, generate).
C1_UnsupportedModel ==
    \A i \in Invocations :
        (pc[i] # "idle" /\ ~Bound(i)) =>
            /\ Failed(i, "MCP_002")
            /\ \A k \in DOMAIN calls[i] : calls[i][k].op = "registry.get"

W1_UnsupportedModel ==
    \E i \in Invocations : pc[i] # "idle" /\ ~Bound(i) /\ Failed(i, "MCP_002")

\* C2: with a bound adapter, when the context fetch raises (RuntimeError or
\* any other exception) the invocation returns status "error" with code
\* MCP_001 and makes no cache lookup, no token count and no generate.
C2_ContextFetchFailure ==
    \A i \in Invocations :
        (pc[i] # "idle" /\ Bound(i) /\ FetchRaised(i)) =>
            /\ Failed(i, "MCP_001")
            /\ \A k \in DOMAIN calls[i] : calls[i][k].op \notin CacheOps \cup AdapterOps

W2_ContextFetchFailure ==
    \E i \in Invocations :
        /\ Bound(i) /\ FetchRaised(i) /\ Failed(i, "MCP_001")
        /\ Outcome(i, "get_knowledge_context", req[i][1].context_type)[2] = "ValueError"

\* C3: an invocation whose input counts both returned, with
\* countTokens(prompt) + countTokens(contextString) > 0.9 * max_tokens, stops
\* at the budget check: its result is status "error" with code MCP_003,
\* adapter.generate is never called and no cache entry is written.
C3_TokenBudgetExceeded ==
    \A i \in Invocations :
        (InputCounted(i) /\ 10 * InputTokens(i) > 9 * req[i][1].max_tokens) =>
            /\ pc[i] \in {"budget", "done"}
            /\ Done(i) => Failed(i, "MCP_003")
            /\ ~Called(i, "generate")
            /\ ~Called(i, "cache.set") /\ ~Called(i, "redis.setex")

W3_TokenBudgetExceeded ==
    \E i \in Invocations :
        /\ InputCounted(i) /\ 10 * InputTokens(i) > 9 * req[i][1].max_tokens
        /\ Failed(i, "MCP_003")

\* C4 (as claimed): when adapter.count_tokens raises during the budget check,
\* on the prompt or on the context string, the failure is not fatal: the
\* pipeline goes on to Generate, and when generate and the output count then
\* succeed (and the metrics recorder works) the invocation returns status
\* "success" with the generated text.
C4_CountFailureNotFatal ==
    \A i \in Invocations :
        ( /\ Done(i) /\ InputCountRaised(i) /\ Generated(i) /\ OutputCounted(i)
          /\ ~RecorderRaised(i) ) =>
            /\ Succeeded(i)
            /\ Response(i).response = <<GeneratedText(i)>>

\* the entry returned by the cache holds a response text and a token count,
\* and the hit was counted by the metrics recorder
WellFormedHit(i) ==
    /\ CacheHit(i) /\ HitEntry(i).response # <<>> /\ HitEntry(i).tokens_used # <<>>
    /\ \E k \in Metrics(i) : calls[i][k].out = <<"cached">>

C6_CachedFlag ==
    \A i \in Invocations :
        /\ (Done(i) /\ WellFormedHit(i)) =>
              /\ "cached" \in DOMAIN Response(i)
              /\ Response(i)["cached"] = <<TRUE>>
              /\ Response(i).response = HitEntry(i).response
              /\ Response(i).tokens_used = HitEntry(i).tokens_used
        /\ (Done(i) /\ Generated(i)) =>
              ~("cached" \in DOMAIN Response(i) /\ Response(i)["cached"] = <<TRUE>>)

\* what an invocation returns when no cache is in play, as a function of its
\* request and of what the registry, the context provider, the adapter and
\* the metrics recorder answered:
\* <<status, error code, context, response, tokens_used>>
View(resp) ==
    <<resp.status[1],
      IF resp.error = <<>> THEN <<>> ELSE <<resp.error[1].code>>,
      resp.context, resp.response, resp.tokens_used>>

ErrorView(code) == <<"error", <<code>>, <<>>, <<>>, <<>>>>

Uncached(i) ==
    LET r == req[i][1]
        asked(op, arg) == CallsOn(i, op, arg) # {}
        fetch == Outcome(i, "get_knowledge_context", r.context_type)
        p == Outcome(i, "count_tokens", "prompt")
        c == Outcome(i, "count_tokens", "context")
        total == IF p = <<>> THEN 0 ELSE IF c = <<>> THEN 0 ELSE p[1] + c[1]
        g == Outcome(i, "generate", r.model_id)
        o == Outcome(i, "count_tokens", "response")
    IN  IF ~Bound(i) THEN ErrorView("MCP_002")
        ELSE IF ~asked("get_knowledge_context", r.context_type) THEN <<"not asked">>
        ELSE IF fetch[1] = "raised" THEN ErrorView("MCP_001")
        ELSE IF ~asked("count_tokens", "prompt") THEN <<"not asked">>
        ELSE IF p # <<>> /\ ~asked("count_tokens", "context") THEN <<"not asked">>
        ELSE IF 10 * total > 9 * r.max_tokens THEN ErrorView("MCP_003")
        ELSE IF ~asked("generate", r.model_id) THEN <<"not asked">>
        ELSE IF g[1] = "raised" THEN ErrorView("MCP_999")
        ELSE IF ~asked("count_tokens", "response") THEN <<"not asked">>
        ELSE IF o = <<>> \/ p = <<>> \/ RecorderRaised(i) THEN ErrorView("MCP_999")
        ELSE <<"success", <<>>, <<fetch[2]>>, <<g[2]>>, <<total + o[1]>>>>

\* every Redis call of invocation i raised (or it made none)
RedisFailed(i) ==
    \A k \in CallsTo(i, "redis.get") \cup CallsTo(i, "redis.setex") :
        calls[i][k].out = <<FALSE>>

\* C8: an invocation whose cache-store calls all fail returns what the same
\* request returns with caching disabled, for every behaviour of the context
\* provider and the adapter: the result is the one the uncached pipeline
\* computes from their answers, so a cache error neither produces an error
\* result of its own nor keeps Generate from running.
C8_CacheFailureTransparent ==
    \A i \in Invocations :
        (Done(i) /\ RedisFailed(i)) => View(Response(i)) = Uncached(i)

W8_CacheFailureTransparent ==
    \E i \in Invocations :
        /\ Succeeded(i) /\ Generated(i)
        /\ CallsTo(i, "redis.get") # {} /\ CallsTo(i, "redis.setex") # {}
        /\ RedisFailed(i)
        /\ View(Response(i)) = Uncached(i)

\* C9: when adapter.generate raises, a RuntimeError or any other exception,
\* the invocation returns status "error" with code MCP_999 and writes no
\* cache entry.
C9_GenerationFailure ==
    \A i \in Invocations :
        GenerateRaised(i) =>
            /\ Failed(i, "MCP_999")
            /\ ~Called(i, "cache.set") /\ ~Called(i, "redis.setex")

W9_GenerationFailure ==
    \E i \in Invocations :
        /\ GenerateRaised(i) /\ Failed(i, "MCP_999")
        /\ Outcome(i, "generate", req[i][1].model_id)[2] = "Exception"

\* C10 (as claimed): every invocation, whichever stage ends it, has emitted an
\* invocation metric tagged with the model id of its request and one of the
\* outcomes success, cached, error by the time it returns (the metrics
\* recorder working).
C10_MetricOnEveryPath ==
    \A i \in Invocations :
        (Done(i) /\ ~RecorderRaised(i)) =>
            \E k \in Metrics(i) :
                /\ calls[i][k].arg = req[i][1].model_id
                /\ calls[i][k].out[1] \in {"success", "cached", "error"}

\* C7 (as claimed): of two identical invocations served one after the other by
\* the started application, with a store that answers, the first calls
\* generate and the second returns cached = true with the token count of the
\* first, without a second call to generate.
C7_SecondInvocationCached ==
    ( /\ started
      /\ Done(1) /\ Done(2) /\ 1 \in began_after[2]
      /\ foreign_writes = 0
      /\ req[1] = req[2]
      /\ Succeeded(1) /\ Generated(1) ) =>
        /\ "cached" \in DOMAIN Response(2)
        /\ Response(2)["cached"] = <<TRUE>>
        /\ Response(2).tokens_used = Response(1).tokens_used
        /\ ~Called(2, "generate")

-----------------------------------------------------------------------------
(* C11..C20: result shape, cache entries, fingerprints, registry *)

ErrorCodes == {"MCP_001", "MCP_002", "MCP_003", "MCP_999"}

\* a well-formed InvocationResult: a status, and with status "error" an error
\* object with one of the codes of the taxonomy
WellFormed(resp) ==
    /\ resp.status \in {<<"success">>, <<"error">>}
    /\ resp.status = <<"error">> =>
          resp.error # <<>> /\ resp.error[1].code \in ErrorCodes

\* a fault of invocation i that no stage of its own handles: generate or the
\* count of the response raised, or the recorder raised on the final metric
Unhandled(i) ==
    \/ GenerateRaised(i)
    \/ CallsOn(i, "count_tokens", "response") # {}
          /\ Outcome(i, "count_tokens", "response") = <<>>
    \/ \E k \in CallsTo(i, "record_ai_invocation.raised") :
          calls[i][k].out \in {<<"success">>, <<"error">>}

\* C11: whatever the registry, the context provider, the cache, the adapter
\* and the metrics recorder do, an invocation that ended has returned a
\* well-formed result, and one that met a fault no stage handles has returned
\* status "error" with code MCP_999.
C11_NoFaultEscapes ==
    \A i \in Invocations :
        /\ Done(i) <=> result[i] # <<>>
        /\ Done(i) => WellFormed(Response(i))
        /\ (Done(i) /\ Unhandled(i)) => Failed(i, "MCP_999")

W11_NoFaultEscapes ==
    \E i \in Invocations :
        /\ Failed(i, "MCP_999") /\ Generated(i) /\ OutputCounted(i)
        /\ \E k \in CallsTo(i, "record_ai_invocation.raised") :
              calls[i][k].out = <<"error">>

\* the input token count of invocation i as the budget check sees it: the sum
\* of the two counts, 0 when one of them raised
BudgetInput(i) == IF InputCounted(i) THEN InputTokens(i) ELSE 0

\* CacheManager.set of invocation i wrote its entry
Stored(i) ==
    \E k \in CallsTo(i, "redis.setex") : calls[i][k].out = <<TRUE>>

\* C12: a result produced by a generation carries the generated text and
\* tokens_used = inputTokens + count_tokens(response), inputTokens being
\* count_tokens(prompt) + count_tokens(context string); and right after the
\* write, the cache holds under the fingerprint of the request an entry with
\* that text and that total.
C12_TokensUsed ==
    \A i \in Invocations :
        /\ (Succeeded(i) /\ Generated(i)) =>
              /\ Response(i).response = <<GeneratedText(i)>>
              /\ Response(i).tokens_used =
                    <<BudgetInput(i) + Outcome(i, "count_tokens", "response")[1]>>
        /\ (pc[i] = "respond" /\ Stored(i)) =>
              LET key == CacheKey(req[i][1], loc[i].context_data)
              IN /\ key \in DOMAIN redis
                 /\ json_loads(redis[key].value) =
                       Entry(<<GeneratedText(i)>>,
                             <<BudgetInput(i) + Outcome(i, "count_tokens", "response")[1]>>)

W12_TokensUsed ==
    \E i \in Invocations :
        /\ Succeeded(i) /\ Generated(i) /\ Stored(i)
        /\ InputCounted(i) /\ InputTokens(i) = 9
        /\ Response(i).tokens_used = <<18>>

\* C13 (as claimed): every result invoke_mcp returns has exactly one of
\* response and error: with status "success" response and tokens_used are
\* present and error is absent, with status "error" error is present, with a
\* code and details, and response is absent.
C13_ResponseXorError ==
    \A i \in Invocations :
        Done(i) =>
            /\ Response(i).status = <<"success">> =>
                  /\ Response(i).response # <<>>
                  /\ Response(i).tokens_used # <<>>
                  /\ Response(i).error = <<>>
            /\ Response(i).status = <<"error">> =>
                  /\ Response(i).error # <<>>
                  /\ {"code", "details"} \subseteq DOMAIN Response(i).error[1]
                  /\ Response(i).response = <<>>

\* invocation i wrote, or tried to write, a cache entry
Wrote(i) == Called(i, "cache.set") \/ Called(i, "redis.setex")

\* the lookup of invocation i found an entry with a response and a token
\* count, and the recorder did not raise on the metric of the hit
ReturnableHit(i) ==
    /\ CacheHit(i) /\ HitEntry(i).response # <<>> /\ HitEntry(i).tokens_used # <<>>
    /\ \A k \in CallsTo(i, "record_ai_invocation.raised") :
          calls[i][k].out # <<"cached">>

Missed(i) ==
    /\ \E k \in CallsTo(i, "redis.get") : calls[i][k].out = <<TRUE>>
    /\ ~CacheHit(i)

\* i and j overlapped: neither had returned when the other began
Concurrent(i, j) == i # j /\ i \notin began_after[j] /\ j \notin began_after[i]

\* the entry invocation i stores
StoredEntry(i) == Entry(Response(i).response, Response(i).tokens_used)

\* both invocations ran the same request at the same time, missed, generated
\* and stored
BothMissedAndStored(i, j) ==
    /\ Concurrent(i, j) /\ Done(i) /\ Done(j) /\ req[i] = req[j]
    /\ Missed(i) /\ Missed(j) /\ Generated(i) /\ Generated(j)
    /\ Stored(i) /\ Stored(j)

\* C15: there is no single-flight deduplication.  Two concurrent invocations
\* of one request can both miss, both generate and both write (the witness);
\* whenever they do, both return status "success", every write replaces the
\* entry of its key, and the cache ends with one entry for the key, the one
\* of the two that was written last.
C15_NoSingleFlight ==
    /\ [](\A i, j \in Invocations :
            (BothMissedAndStored(i, j) /\ foreign_writes = 0) =>
                /\ Succeeded(i) /\ Succeeded(j)
                /\ Response(i).context = Response(j).context
                /\ LET key == CacheKey(req[i][1], Response(i).context)
                   IN /\ key \in DOMAIN redis
                      /\ json_loads(redis[key].value) \in {StoredEntry(i), StoredEntry(j)})
    /\ [][\A i \in Invocations :
            (pc[i] = "redis_setex" /\ pc'[i] = "respond") =>
                json_loads(redis'[CacheKey(req[i][1], loc[i].context_data)].value) =
                    Entry(loc[i].response_text, <<loc[i].total_tokens>>)]_vars

W15_NoSingleFlight ==
    /\ BothMissedAndStored(1, 2)
    /\ Succeeded(1) /\ Succeeded(2)
    /\ StoredEntry(1) # StoredEntry(2)
    /\ json_loads(redis[CacheKey(req[1][1], Response(1).context)].value) = StoredEntry(1)

\* the key/value content of a context: its pairs, whatever their order
Content(context_data) ==
    IF context_data = <<>> THEN {}
    ELSE {context_data[1][k] : k \in DOMAIN context_data[1]}

\* both fingerprints of the probe are computed
Fingerprinted == probe.get_key # <<>> /\ probe.set_key # <<>>

\* the arguments of the get and of the set agree on every input but the context
SameScalars(a, b) ==
    /\ a.model_id = b.model_id /\ a.prompt = b.prompt
    /\ a.temperature = b.temperature /\ a.max_tokens = b.max_tokens

\* C16: the fingerprint is a function of model id, prompt, context key/value
\* content, temperature and max_tokens: a get and a set whose arguments agree
\* on these, whatever the insertion order of the context keys, compute the
\* same cache key.
C16_FingerprintDeterministic ==
    ( /\ Fingerprinted
      /\ SameScalars(probe.get_args, probe.set_args)
      /\ Content(probe.get_args.context_data) = Content(probe.set_args.context_data) ) =>
        probe.get_key = probe.set_key

W16_FingerprintDeterministic ==
    /\ Fingerprinted
    /\ SameScalars(probe.get_args, probe.set_args)
    /\ probe.get_args.context_data = <<UnitContext>>
    /\ probe.set_args.context_data = <<ReversedUnitContext>>
    /\ probe.get_key = probe.set_key

\* the inputs on which the arguments of the get and of the set differ
Differing(a, b) ==
    {f \in {"model_id", "prompt", "temperature", "max_tokens"} : a[f] # b[f]}
        \cup (IF Content(a.context_data) # Content(b.context_data)
              THEN {"context_data"} ELSE {})

\* json.dumps accepts the context
Serializable(context_data) == Unserializable \notin {p[2] : p \in Content(context_data)}

\* C17 (as claimed): changing one of model id, prompt, context content,
\* temperature, max_tokens, the other four held fixed, changes the
\* fingerprint, for every pair of values of that input.
C17_FingerprintInjectiveAsClaimed ==
    (Fingerprinted /\ Cardinality(Differing(probe.get_args, probe.set_args)) = 1) =>
        probe.get_key # probe.set_key

\* C17 (amended): changing one of model id, prompt, context content,
\* temperature, max_tokens, the other four held fixed, changes the
\* fingerprint, for every pair of values of that input, except that two
\* contexts json.dumps cannot serialize share the part "unhashable" (as two
\* empty or absent contexts share the part "empty").
C17_FingerprintInjective ==
    ( /\ Fingerprinted
      /\ Cardinality(Differing(probe.get_args, probe.set_args)) = 1
      /\ \/ Serializable(probe.get_args.context_data)
         \/ Serializable(probe.set_args.context_data) ) =>
        probe.get_key # probe.set_key

W17_FingerprintInjective ==
    /\ Fingerprinted
    /\ Differing(probe.get_args, probe.set_args) = {"context_data"}
    /\ probe.get_args.context_data = <<UnitContext>>
    /\ probe.set_args.context_data = <<OtherUnitContext>>
    /\ probe.get_key # probe.set_key

\* the last set of the inputs of the get just made
SetBefore == probe.sets[probe.got[1].inputs]

\* the get just made followed a set of the same inputs that returned True, and
\* the store answered it
GotAfterSet ==
    /\ probe.got # <<>>
    /\ SetBefore # <<>>
    /\ SetBefore[1].returned
    /\ probe.got[1].outcome # "error"

\* C18: set(inputs, v, ttl) followed immediately by get(same inputs) returns
\* v; once ttl seconds have elapsed with no further set, get(same inputs)
\* returns a miss; with ttl omitted the entry lives for the default 3600 s.
C18_RoundTrip ==
    GotAfterSet =>
        LET g == probe.got[1]
            s == SetBefore[1] IN
        /\ (s.age = 0 /\ (s.ttl = <<>> \/ s.ttl[1] > 0)) => g.returned = <<s.value>>
        /\ (s.ttl # <<>> /\ s.age >= s.ttl[1]) => g.returned = <<>>
        /\ s.ttl = <<>> => (g.returned = <<s.value>> <=> s.age < DEFAULT_TTL)
        /\ g.returned \in {<<>>, <<s.value>>}

\* the adapter of the most recent register call for model_id, <<>> if none
LastRegistered(registered, model_id) ==
    LET made == {k \in DOMAIN registered : registered[k][1] = model_id} IN
    IF made = {} THEN <<>>
    ELSE <<registered[CHOOSE k \in made : \A j \in made : j <= k][2]>>

\* C19: after any sequence of register calls, get(modelId) returns the adapter
\* passed to the most recent register for that id; get of an id that was never
\* registered fails with ValueError and leaves the registry unchanged.
C19_LastWriteWins ==
    probe.got # <<>> =>
        /\ probe.got[1].returned = LastRegistered(probe.registered, probe.got[1].model_id)
        /\ _adapters = probe.got[1].before

W19_LastWriteWins ==
    /\ probe.got # <<>>
    /\ Len(probe.registered) = 3
    /\ probe.registered[1][1] = "gpt-4"
    /\ probe.registered[3][1] = "gpt-4"
    /\ probe.registered[1][2] # probe.registered[3][2]
    /\ probe.got[1].model_id = "gpt-4"
    /\ probe.got[1].returned = <<probe.registered[3][2]>>

\* the ids of the register calls, each once, in the order of their first call
RECURSIVE RegistrationOrder(_)
RegistrationOrder(registered) ==
    IF registered = <<>> THEN <<>>
    ELSE LET n == Len(registered)
             earlier == RegistrationOrder(SubSeq(registered, 1, n - 1))
         IN IF registered[n][1] \in {earlier[k] : k \in DOMAIN earlier}
            THEN earlier
            ELSE Append(earlier, registered[n][1])

\* C20: list_models() returns exactly the bound model ids, each once, in
\* registration order, after any sequence of register calls, including
\* sequences that register an already bound id again.
C20_ListInRegistrationOrder ==
    probe.listed # <<>> =>
        /\ probe.listed[1] = RegistrationOrder(probe.registered)
        /\ {probe.listed[1][k] : k \in DOMAIN probe.listed[1]} = BoundIds(_adapters)
        /\ Cardinality(BoundIds(_adapters)) = Len(probe.listed[1])

W20_ListInRegistrationOrder ==
    /\ probe.listed # <<>>
    /\ Len(probe.registered) = 3
    /\ probe.registered[1][1] = "gpt-4"
    /\ probe.registered[2][1] = "mock-model"
    /\ probe.registered[3][1] = "gpt-4"
    /\ probe.listed[1] = <<"gpt-4", "mock-model">>

-----------------------------------------------------------------------------
(* C21..C30 *)

\* the factory call just made was op
FactoryDid(op) == probe.call # <<>> /\ probe.call[1].op = op

\* the model ids initialize_adapters attempts under the given credentials
Attempted(config) ==
    (IF config.openai_api_key THEN {OpenAIModels[k] : k \in DOMAIN OpenAIModels} ELSE {})
    \cup (IF config.zhipu_api_key THEN {ZhipuModels[k] : k \in DOMAIN ZhipuModels} ELSE {})

\* the construction of model_id's adapter does not fail
Constructible(table, model_id, failing) ==
    /\ model_id \in BoundIds(table)
    /\ DictGet(table, model_id) # "BaseAIAdapter"
    /\ DictGet(table, model_id) = "MockAdapter" \/ model_id \notin failing

\* C21: initialize_adapters registers every known model id of every provider
\* whose credential is present and whose construction succeeds, skips the ones
\* whose construction fails whatever that subset is, leaves the other bindings
\* alone, and returns without raising.
C21_InitializeTolerant ==
    FactoryDid("initialize_adapters") =>
        LET c == probe.call[1]
            config == probe.call[1].arg[1] IN
        /\ c.out = <<"returned">>
        /\ \A model_id \in Attempted(config) :
              IF Constructible(c.table, model_id, config.failing)
              THEN RegistryGet(_adapters, model_id)
                      = <<[model_id |-> model_id, cls |-> DictGet(c.table, model_id)]>>
              ELSE RegistryGet(_adapters, model_id) = RegistryGet(c.registry, model_id)
        /\ \A model_id \in (BoundIds(_adapters) \cup BoundIds(c.registry))
                              \ Attempted(config) :
              RegistryGet(_adapters, model_id) = RegistryGet(c.registry, model_id)

W21_InitializeTolerant ==
    /\ FactoryDid("initialize_adapters")
    /\ probe.call[1].arg[1].openai_api_key
    /\ probe.call[1].arg[1].zhipu_api_key
    /\ probe.call[1].arg[1].failing = {"gpt-4", "glm-4"}
    /\ BoundIds(_adapters) = {"gpt-4-turbo", "gpt-4o", "gpt-3.5-turbo", "glm-4-turbo",
                              "glm-3-turbo"}

\* C22: register_adapter rejects a type that is not a BaseAIAdapter subclass
\* with TypeError and leaves the table unchanged; for a conforming type the id
\* is afterwards listed by list_supported_models and create_adapter(modelId,
\* key), its constructor not failing, returns an instance of that type.
C22_RegisterAdapterChecksType ==
    /\ FactoryDid("register_adapter") =>
          LET c == probe.call[1] IN
          IF IsAdapterClass(c.arg[1])
          THEN /\ c.out = <<"returned">>
               /\ c.model_id \in BoundIds(probe.MODEL_ADAPTERS)
               /\ DictGet(probe.MODEL_ADAPTERS, c.model_id) = c.arg[1]
          ELSE /\ c.out = <<"raised", "TypeError">>
               /\ probe.MODEL_ADAPTERS = c.table
    /\ FactoryDid("list_supported_models") =>
          {probe.call[1].out[2][k] : k \in DOMAIN probe.call[1].out[2]}
              = BoundIds(probe.MODEL_ADAPTERS)
    /\ ( /\ FactoryDid("create_adapter")
         /\ probe.call[1].model_id \in BoundIds(probe.MODEL_ADAPTERS)
         /\ probe.call[1].arg[1] ) =>
          probe.call[1].out
              = <<"returned", [model_id |-> probe.call[1].model_id,
                               cls |-> DictGet(probe.MODEL_ADAPTERS,
                                               probe.call[1].model_id)]>>

\* C23: create_adapter fails with ValueError whenever modelId has no entry in
\* the id-to-constructor table, and then constructs no adapter and changes
\* neither the table nor the registry.
C23_CreateUnsupported ==
    ( /\ FactoryDid("create_adapter")
      /\ probe.call[1].model_id \notin BoundIds(probe.call[1].table) ) =>
        /\ probe.call[1].out = <<"raised", "ValueError">>
        /\ probe.MODEL_ADAPTERS = probe.call[1].table
        /\ _adapters = probe.call[1].registry

W23_CreateUnsupported ==
    /\ FactoryDid("create_adapter")
    /\ probe.call[1].model_id = "custom-model"
    /\ probe.call[1].out = <<"raised", "ValueError">>
    /\ probe.registers = 1
    /\ _adapters # <<>>

\* the keys of a store that belong to model_id
KeysOf(store, model_id) == {k \in DOMAIN store : k[2] = model_id}

\* clear_model_cache just returned, having scanned and deleted without error
\* on a store nobody else changed meanwhile
Cleared == probe.cleared # <<>> /\ probe.cleared[1].completed /\ probe.cleared[1].quiet

\* C24: clear_model_cache(modelId) deletes every cache entry whose fingerprint
\* belongs to that model id, returns the number of entries deleted, and leaves
\* the entries of every other model id unchanged.
C24_ClearOnlyThatModel ==
    Cleared =>
        LET c == probe.cleared[1] IN
        /\ KeysOf(redis, c.model_id) = {}
        /\ c.returned = Cardinality(DOMAIN c.found \ DOMAIN redis)
        /\ \A k \in DOMAIN c.found \ KeysOf(c.found, c.model_id) :
              k \in DOMAIN redis /\ redis[k] = c.found[k]

\* the request just posted was answered with status
Answered(status) == probe.http # <<>> /\ probe.http[1].status = status

\* a body has a field out of its bounds
OutOfBounds(body) ==
    \/ body.max_tokens # <<>> /\ (body.max_tokens[1] < 1 \/ body.max_tokens[1] > 8192)
    \/ body.temperature # <<>> /\ (body.temperature[1] < 0 \/ body.temperature[1] > 20)

\* C25: a request with max_tokens outside [1, 8192] or temperature outside
\* [0.0, 2.0] is rejected at validation before the pipeline executes: no
\* registry lookup, context fetch, cache access or adapter call happens for it.
C25_OutOfBoundsRejected ==
    (probe.http # <<>> /\ OutOfBounds(probe.http[1].body)) =>
        /\ probe.http[1].status # 200
        /\ handled = probe.http[1].found

W25_OutOfBoundsRejected ==
    /\ Answered(422)
    /\ probe.http[1].x_api_key = <<"test-key">>
    /\ probe.http[1].body.max_tokens = <<10000>>
    /\ probe.http[1].body.temperature = <<>>
    /\ probe.http[1].body.prompt # <<>>
    /\ probe.http[1].body.context_type = <<>>
    /\ _adapters # <<>>
    /\ calls[1] = <<>>

\* the value a validated request has for a field of the body
Kept(body, field, default) == IF body[field] = <<>> THEN default ELSE body[field][1]

\* C26: a request that gives only context_id, model_id and prompt validates to
\* a request with context_type=wisunit, max_tokens=2000 and temperature=0.7,
\* and explicitly supplied in-bounds values are kept unchanged.
C26_Defaults ==
    ( /\ probe.http # <<>>
      /\ probe.http[1].x_api_key \notin {<<>>, <<"">>}
      /\ probe.http[1].body.prompt # <<>>
      /\ probe.http[1].body.context_type # <<"bogus">>
      /\ ~OutOfBounds(probe.http[1].body) ) =>
        /\ Answered(200)
        /\ req[1] # <<>>
        /\ req[1][1].context_id = probe.http[1].body.context_id[1]
        /\ req[1][1].model_id = probe.http[1].body.model_id[1]
        /\ req[1][1].prompt = probe.http[1].body.prompt[1]
        /\ req[1][1].context_type = Kept(probe.http[1].body, "context_type", "wisunit")
        /\ req[1][1].max_tokens = Kept(probe.http[1].body, "max_tokens", 2000)
        /\ req[1][1].temperature = Kept(probe.http[1].body, "temperature", 7)

W26_Defaults ==
    /\ Answered(200)
    /\ probe.http[1].body.context_type = <<>>
    /\ probe.http[1].body.max_tokens = <<>>
    /\ probe.http[1].body.temperature = <<>>
    /\ req[1] = <<[context_id |-> "ctx_001", model_id |-> "gpt-4",
                   prompt |-> "Hello, WisHub!", context_type |-> "wisunit",
                   max_tokens |-> 2000, temperature |-> 7]>>
    /\ Done(1)

\* the X-API-Key header of the request just posted is absent or empty
LacksKey == probe.http # <<>> /\ probe.http[1].x_api_key \in {<<>>, <<"">>}

\* C28: when the deployment requires authentication, a request whose API-key
\* header is absent or empty is rejected with 401 and the pipeline does not
\* run; when authentication is not required, a request is not rejected for
\* lacking the header.
C28_ApiKeyRequiredOnlyWithAuth ==
    LacksKey =>
        IF probe.AUTH_REQUIRED
        THEN Answered(401) /\ handled = probe.http[1].found
        ELSE Validate(probe.http[1].body) # <<>> => Answered(200)

\* C27: the model listing endpoint returns status="success" with a models
\* list whose length equals count and which contains every model id registered
\* in the registry before the call, after any sequence of registrations.
C27_ModelsEndpoint ==
    probe.models # <<>> =>
        /\ probe.models[1].status = "success"
        /\ Len(probe.models[1].models) = probe.models[1].count
        /\ \A k \in DOMAIN probe.registered :
              \E j \in DOMAIN probe.models[1].models :
                  probe.models[1].models[j] = probe.registered[k][1]

W27_ModelsEndpoint ==
    /\ probe.models # <<>>
    /\ Len(probe.registered) = 3
    /\ probe.registered[1][1] = probe.registered[3][1]
    /\ probe.registered[1][1] # probe.registered[2][1]
    /\ probe.models[1].count = 2

\* the overall status the rule gives for a dict of dependency results
OverallByRule(dependencies) ==
    CASE \A n \in DOMAIN dependencies : dependencies[n] = "healthy" -> "healthy"
      [] \E n \in DOMAIN dependencies : dependencies[n] = "unhealthy" -> "unhealthy"
      [] OTHER -> "degraded"

\* C29: the overall health status is, for every set of dependency results:
\* healthy when all are healthy, unhealthy when any is unhealthy, degraded
\* otherwise; the health endpoint answers with the status of its results.
C29_OverallStatus ==
    /\ probe.overall # <<>> => probe.overall[1] = OverallByRule(probe.given)
    /\ probe.response # <<>> =>
          /\ probe.response[1].status = OverallByRule(probe.response[1].dependencies)
          /\ "redis" \in DOMAIN probe.response[1].dependencies

W29_OverallStatus ==
    /\ probe.overall = <<"degraded">>
    /\ \E n \in DOMAIN probe.given : probe.given[n] = "healthy"
    /\ probe.response # <<>>
    /\ probe.response[1].status = "unhealthy"
    /\ probe.response[1].dependencies["redis"] = "healthy"

\* C30: two calls of count_tokens with the same text on the same adapter
\* return the same integer regardless of the state or availability of the
\* back-end.
C30_CountDeterministic ==
    Len(probe.counted) = 2 => probe.counted[1].returned = probe.counted[2].returned

-----------------------------------------------------------------------------
(* C31..C39: the budget threshold, cache faults, order of the stages *)

\* the counts of the input of invocation i ended, by a result or by a raise:
\* the invocation is at the budget check or past it
ReachedBudget(i) == InputCounted(i) \/ InputCountRaised(i)

\* C31: the threshold of the budget check is strict: an invocation that
\* reaches the check with 10 * inputTokens <= 9 * max_tokens (inputTokens being
\* 0 when a count raised) never returns MCP_003 and goes on to generate.
C31_ThresholdStrict ==
    \A i \in Invocations :
        (ReachedBudget(i) /\ 10 * BudgetInput(i) <= 9 * req[i][1].max_tokens) =>
            /\ ~Failed(i, "MCP_003")
            /\ pc[i] \in {"budget", "generate"} \/ Called(i, "generate")

W31_ThresholdStrict ==
    \E i \in Invocations :
        /\ InputCounted(i) /\ 10 * InputTokens(i) = 9 * req[i][1].max_tokens
        /\ Called(i, "generate")

\* the call just made on the manager met a cache-store error: the store
\* raised on the command, or json could not encode or decode the value
StoreError == probe.call # <<>> /\ (probe.call[1].store_raised \/ probe.call[1].json_raised)

\* C32: a cache-store error inside CacheManager.get, set or delete is caught
\* there and counted as an "error" outcome of that operation, and the call
\* reports a miss (get returns None) or a no-op (set and delete return False,
\* the keyspace being as before); none of the three ever raises to its caller.
C32_CacheFaultsContained ==
    /\ probe.call # <<>> => probe.call[1].out[1] = "returned"
    /\ StoreError =>
          /\ \E k \in DOMAIN probe.call[1].counted : probe.call[1].counted[k] = "error"
          /\ probe.call[1].out[2] = (IF probe.call[1].operation = "get" THEN <<>> ELSE FALSE)
          /\ ~probe.call[1].changed

W32_CacheFaultsContained ==
    /\ StoreError
    /\ probe.call[1].operation = "set" /\ probe.call[1].json_raised
    /\ probe.call[1].out = <<"returned", FALSE>>
    /\ redis # <<>>

\* the context is None or has no member
Absent(context_data) == context_data = <<>> \/ context_data[1] = <<>>

\* the key computed from the arguments is whole, and its context part is the
\* sentinel the context calls for, or else a digest
SentinelPart(arguments, key) ==
    /\ Len(key) = 6
    /\ key[4] = IF Absent(arguments.context_data) THEN <<"empty">>
                ELSE IF ~Serializable(arguments.context_data) THEN <<"unhashable">>
                ELSE Sha256(SortKeys(arguments.context_data[1]))

\* C33: _hash_context never fails: an empty or absent context maps to the
\* sentinel "empty", one that cannot be serialized to the sentinel
\* "unhashable", so that get and set compute a fingerprint for such requests
\* as well.
C33_SentinelHashes ==
    /\ probe.get_key # <<>> => SentinelPart(probe.get_args, probe.get_key[1])
    /\ probe.set_key # <<>> => SentinelPart(probe.set_args, probe.set_key[1])

W33_SentinelHashes ==
    /\ Fingerprinted
    /\ probe.get_args.context_data = <<OpaqueUnitContext>>
    /\ probe.get_key[1][4] = <<"unhashable">>
    /\ probe.set_args.context_data = <<>>
    /\ probe.set_key[1][4] = <<"empty">>

\* the context fetch of invocation i returned a context
FetchReturned(i) ==
    \E k \in CallsTo(i, "get_knowledge_context") : calls[i][k].out[1] = "returned"

\* the calls of invocation i before its call to generate came in the order of
\* the stages: the registry, the context provider, the cache, the input counts
StagesInOrder(i) ==
    \A g \in CallsTo(i, "generate") :
        /\ \E a \in CallsTo(i, "registry.get"), f \in CallsTo(i, "get_knowledge_context"),
              t \in CallsTo(i, "count_tokens") :
                /\ a < f /\ f < t /\ t < g
                /\ \A c \in CallsTo(i, "cache.get") \cup CallsTo(i, "redis.get") :
                      f < c /\ c < t
        /\ \A t \in CallsOn(i, "count_tokens", "prompt")
                    \cup CallsOn(i, "count_tokens", "context") : t < g

\* the budget check of invocation i let the input through
BudgetPassed(i) ==
    ReachedBudget(i) /\ 10 * BudgetInput(i) <= 9 * req[i][1].max_tokens

C35_WriteThenSuccess ==
    \A i \in Invocations : (Done(i) /\ Stored(i)) => Succeeded(i)

\* the store holds an entry the pipeline wrote for the request of invocation i
\* with some context, as an identical earlier request leaves it
EarlierEntry(i) ==
    \E b \in ContextBlobs :
        /\ CacheKey(req[i][1], <<b>>) \in DOMAIN redis
        /\ json_loads(redis[CacheKey(req[i][1], <<b>>)].value).response = <<"answer">>

\* C36: the cache is consulted only after the context fetch of the same
\* invocation returned: no lookup precedes the fetch, and when the context
\* provider fails the result is MCP_001 and no lookup is made, even if the
\* cache holds an entry of an identical earlier request.
C36_LookupAfterFetch ==
    \A i \in Invocations :
        /\ \A c \in CallsTo(i, "cache.get") \cup CallsTo(i, "redis.get") :
              \E f \in CallsTo(i, "get_knowledge_context") :
                  f < c /\ calls[i][f].out[1] = "returned"
        /\ (FetchRaised(i) /\ EarlierEntry(i)) =>
              /\ Failed(i, "MCP_001")
              /\ ~Called(i, "cache.get") /\ ~Called(i, "redis.get")

W36_LookupAfterFetch ==
    \E i \in Invocations :
        /\ FetchRaised(i) /\ EarlierEntry(i) /\ Failed(i, "MCP_001")
        /\ _cache_manager # <<>> /\ Usable(_cache_manager)

\* C37 (as claimed): each invocation emits at most one invocation metric, the
\* invocations included whose cache lookup returned an entry lacking response
\* or tokens_used and which fell through from the hit path to the generation.
C37_OneInvocationMetric ==
    \A i \in Invocations : Cardinality(Metrics(i)) <= 1

\* the count of the response raised in invocation i, after generate returned
OutputCountRaised(i) ==
    /\ Generated(i)
    /\ CallsOn(i, "count_tokens", "response") # {}
    /\ Outcome(i, "count_tokens", "response") = <<>>

\* the handler of invocation i called the recorder with the outcome "error",
\* and the outcome was counted unless the recorder raised on that call
RecordedError(i) ==
    \/ \E k \in Metrics(i) : calls[i][k].out = <<"error">>
    \/ \E k \in CallsTo(i, "record_ai_invocation.raised") : calls[i][k].out = <<"error">>

\* C38: when adapter.count_tokens(response) raises after adapter.generate
\* returned, the invocation returns status "error" with code MCP_999, writes
\* no cache entry and records the outcome "error".
C38_OutputCountFailure ==
    \A i \in Invocations :
        OutputCountRaised(i) =>
            /\ Failed(i, "MCP_999")
            /\ ~Wrote(i)
            /\ RecordedError(i)
            /\ \A k \in Metrics(i) : calls[i][k].out # <<"success">>

W38_OutputCountFailure ==
    \E i \in Invocations :
        /\ OutputCountRaised(i) /\ Failed(i, "MCP_999")
        /\ _cache_manager # <<>> /\ Usable(_cache_manager)
        /\ \E k \in Metrics(i) : calls[i][k].out = <<"error">>
        /\ redis = <<>>

\* C39 (as claimed): clear_model_cache(modelId) returns exactly the number of
\* entries it removed, and when it returns, having reached the store, no entry
\* of that model written before the call started remains, whatever sets of
\* entries of that model and whatever expiries happen between its scan and
\* its delete.
C39_ClearCountsRemoved ==
    probe.cleared # <<>> =>
        LET c == probe.cleared[1] IN
        /\ c.returned = c.removed
        /\ c.completed =>
              \A k \in KeysOf(c.found, c.model_id) : k \notin DOMAIN redis


====
